---------------------------- MODULE Spec2Model ----------------------------
(***************************************************************************)
(* Cache simulator: the set-associative cache level (Cache), its           *)
(* replacement policies (LRU, FIFO, Random) and the two-level              *)
(* CacheHierarchy with inclusive / exclusive / NINE lower level.           *)
(*                                                                         *)
(* Cache and CacheHierarchy are modelled from the amalgamated cache.cpp,   *)
(* the policies from src/cache_policy.cpp, the address decoding from       *)
(* src/address.cpp and the types from cache.hpp.                           *)
(***************************************************************************)
EXTENDS Integers, Sequences, FiniteSets, TLC

(***************************************************************************)
(* Bounds of the model.                                                    *)
(***************************************************************************)
\* addresses handed to the caches are 0 .. MaxAddress
MaxAddress == 5
\* number of calls (of CacheHierarchy::access, or of the interface of one Cache)
\* in a run
MaxAccesses == 3
\* number of calls in a run that records its calls in history
MaxTrace == 4
\* the largest tag handed to reconstructAddress
MaxTag == 3
\* the largest hit count and miss count of a level handed to collectMetrics
MaxCount == 3
\* number of calls of onAccess and getVictim in a run of a replacement policy
MaxCalls == 6

\* width of an address (std::numeric_limits<uint64_t>::digits)
ADDRESS_WIDTH == 64

Addresses == 0..MaxAddress
AccessTypes == {"Read", "Write"}
Levels == {0, 1}

(***************************************************************************)
(* std::optional<T>                                                        *)
(***************************************************************************)
Some(x) == [has |-> TRUE, val |-> x]
NoAddress == [has |-> FALSE, val |-> 0]

(***************************************************************************)
(* CacheEntry                                                              *)
(***************************************************************************)
\* CacheEntry() and CacheEntry::reset()
EmptyEntry == [valid |-> FALSE, dirty |-> FALSE, tag |-> 0]
NoEntry == [has |-> FALSE, val |-> EmptyEntry]

(***************************************************************************)
(* CacheConfig                                                             *)
(***************************************************************************)
RECURSIVE Log2(_)
\* the loop  while (temp > 1) { temp >>= 1; count++; }
Log2(n) == IF n > 1 THEN 1 + Log2(n \div 2) ELSE 0

getNumSets(cfg) ==
    IF cfg.organization = "FullyAssociative" THEN 1
    ELSE IF cfg.organization = "DirectMapped" THEN cfg.size \div cfg.blockSize
    ELSE cfg.size \div (cfg.blockSize * cfg.associativity)

getNumWays(cfg) ==
    IF cfg.organization = "FullyAssociative" THEN cfg.size \div cfg.blockSize
    ELSE IF cfg.organization = "DirectMapped" THEN 1
    ELSE cfg.associativity

getBlockOffsetBits(cfg) == Log2(cfg.blockSize)

getIndexBits(cfg) ==
    IF cfg.organization = "FullyAssociative" THEN 0 ELSE Log2(getNumSets(cfg))

(***************************************************************************)
(* MemoryAddress                                                           *)
(***************************************************************************)
getTag(a, blockOffsetBits, indexBits) ==
    LET totalLowerBits == blockOffsetBits + indexBits
    IN  IF totalLowerBits >= ADDRESS_WIDTH THEN 0 ELSE a \div (2 ^ totalLowerBits)

getIndex(a, blockOffsetBits, indexBits) ==
    IF indexBits = 0 THEN 0
    ELSE IF blockOffsetBits >= ADDRESS_WIDTH THEN 0
    ELSE LET shifted_address == a \div (2 ^ blockOffsetBits)
         IN  IF indexBits >= ADDRESS_WIDTH THEN shifted_address
             ELSE shifted_address % (2 ^ indexBits)

getBlockOffset(a, blockOffsetBits) ==
    IF blockOffsetBits = 0 THEN 0
    ELSE IF blockOffsetBits >= ADDRESS_WIDTH THEN a
    ELSE a % (2 ^ blockOffsetBits)

RECURSIVE BitOr(_, _)
\* the operator | on unsigned integers
BitOr(a, b) ==
    IF a = 0 THEN b
    ELSE IF b = 0 THEN a
    ELSE (IF a % 2 = 1 \/ b % 2 = 1 THEN 1 ELSE 0) + 2 * BitOr(a \div 2, b \div 2)

\* the operator << (the model's addresses stay far below 2^64)
ShiftLeft(a, n) == a * (2 ^ n)

(***************************************************************************)
(* Replacement policies.  The state of a policy is kept per set:           *)
(*   lruList           LRUPolicy::lruList_ (front = most recently used)    *)
(*   usedWays          FIFOPolicy::usedWays_ / RandomPolicy::usedWays_     *)
(*   circularCounters  FIFOPolicy::circularCounters_                       *)
(***************************************************************************)
Policies == {"LRU", "FIFO", "RANDOM"}

NewPolicy(numSets) ==
    [lruList |-> [s \in 0..(numSets - 1) |-> << >>],
     usedWays |-> [s \in 0..(numSets - 1) |-> {}],
     circularCounters |-> [s \in 0..(numSets - 1) |-> 0]]

\* LRUPolicy::reset, FIFOPolicy::reset, RandomPolicy::reset
Policy_reset(numSets) == NewPolicy(numSets)

\* onAccess that records a way at its first access and never moves it again
LRUPolicy_onAccessNoMove(p, set, way) ==
    IF \E i \in 1..Len(p.lruList[set]) : p.lruList[set][i] = way
    THEN p
    ELSE [p EXCEPT !.lruList[set] = <<way>> \o @]

LRUPolicy_onAccess(p, set, way) ==
    LET list == p.lruList[set]
        erased == SelectSeq(list, LAMBDA w : w # way)
    IN  [p EXCEPT !.lruList[set] = <<way>> \o erased]

FIFOPolicy_onAccess(p, set, way) ==
    [p EXCEPT !.usedWays[set] = @ \cup {way}]

RandomPolicy_onAccess(p, set, way) ==
    [p EXCEPT !.usedWays[set] = @ \cup {way}]

onAccess(kind, p, set, way) ==
    IF kind = "FIFO" THEN FIFOPolicy_onAccess(p, set, way)
    ELSE IF kind = "RANDOM" THEN RandomPolicy_onAccess(p, set, way)
    ELSE LRUPolicy_onAccess(p, set, way)

\* the lowest way of [0, numWays) that is not in used (numWays if none)
FirstUnused(used, numWays) ==
    IF \E w \in 0..(numWays - 1) : w \notin used
    THEN CHOOSE w \in 0..(numWays - 1) :
            /\ w \notin used
            /\ \A v \in 0..(numWays - 1) : v \notin used => w <= v
    ELSE numWays

SeqToSet(s) == {s[i] : i \in 1..Len(s)}

\* getVictim that answers with the number of ways in the list once all are in it
LRUPolicy_getVictimCount(p, set, numWays) ==
    LET list == p.lruList[set]
    IN  IF Len(list) < numWays /\ FirstUnused(SeqToSet(list), numWays) < numWays
        THEN [way |-> FirstUnused(SeqToSet(list), numWays), policy |-> p]
        ELSE [way |-> Len(list), policy |-> p]

\* getVictim returns the chosen way and the policy state it leaves
LRUPolicy_getVictim(p, set, numWays) ==
    LET list == p.lruList[set]
    IN  IF Len(list) = 0 THEN [way |-> 0, policy |-> p]
        ELSE IF Len(list) < numWays /\ FirstUnused(SeqToSet(list), numWays) < numWays
             THEN [way |-> FirstUnused(SeqToSet(list), numWays), policy |-> p]
             ELSE [way |-> list[Len(list)], policy |-> p]

FIFOPolicy_getVictim(p, set, numWays) ==
    LET used == p.usedWays[set]
    IN  IF Cardinality(used) < numWays /\ FirstUnused(used, numWays) < numWays
        THEN [way |-> FirstUnused(used, numWays), policy |-> p]
        ELSE [way |-> p.circularCounters[set],
              policy |-> [p EXCEPT !.circularCounters[set] = (@ + 1) % numWays]]

\* getVictim that draws whenever some way is marked
RandomPolicy_getVictimDraw(p, set, numWays, rnd) ==
    IF p.usedWays[set] = {}
    THEN [way |-> 0, policy |-> [p EXCEPT !.usedWays[set] = {0}]]
    ELSE [way |-> rnd, policy |-> p]

\* rnd is the value that dist(rng) draws from [0, numWays - 1]
RandomPolicy_getVictim(p, set, numWays, rnd) ==
    LET used == p.usedWays[set]
    IN  IF FirstUnused(used, numWays) < numWays
        THEN [way |-> FirstUnused(used, numWays),
              policy |-> [p EXCEPT !.usedWays[set] = @ \cup {FirstUnused(used, numWays)}]]
        ELSE [way |-> rnd, policy |-> p]

getVictim(kind, p, set, numWays, rnd) ==
    IF kind = "FIFO" THEN FIFOPolicy_getVictim(p, set, numWays)
    ELSE IF kind = "RANDOM" THEN RandomPolicy_getVictim(p, set, numWays, rnd)
    ELSE LRUPolicy_getVictim(p, set, numWays)


(***************************************************************************)
(* Cache: one level.  A cache is the record                                *)
(*   entries  cacheEntries_   [set -> [way -> CacheEntry]]                 *)
(*   policy   policy_         the state of the replacement policy          *)
(*   hits     hits_                                                        *)
(*   misses   misses_                                                      *)
(* and cfg is its config_.                                                 *)
(***************************************************************************)
NoWay == -1

\* CacheResult
NewResult(latency) ==
    [hit |-> FALSE, latency |-> latency, writeBack |-> FALSE,
     evictedAddress |-> NoAddress, evictedEntry |-> NoEntry]

\* Cache::Cache(const CacheConfig&)
NewCache(cfg) ==
    [entries |-> [s \in 0..(getNumSets(cfg) - 1) |->
                    [w \in 0..(getNumWays(cfg) - 1) |-> EmptyEntry]],
     policy |-> NewPolicy(getNumSets(cfg)),
     hits |-> 0,
     misses |-> 0]

getSetAndTag(cfg, address) ==
    [set |-> getIndex(address, getBlockOffsetBits(cfg), getIndexBits(cfg)),
     tag |-> getTag(address, getBlockOffsetBits(cfg), getIndexBits(cfg))]

\* findEntry that compares the tags and does not look at the valid bits
findEntryAnyValid(c, set, tag) ==
    LET ways == {w \in DOMAIN c.entries[set] : c.entries[set][w].tag = tag}
    IN  IF ways = {} THEN NoWay
        ELSE CHOOSE w \in ways : \A v \in ways : w <= v

\* the first way of the set that is valid and holds the tag, NoWay if none
findEntry(c, set, tag) ==
    LET ways == {w \in DOMAIN c.entries[set] :
                    c.entries[set][w].valid /\ c.entries[set][w].tag = tag}
    IN  IF ways = {} THEN NoWay
        ELSE CHOOSE w \in ways : \A v \in ways : w <= v

\* reconstructAddress that shifts the set by the index bits
reconstructAddressBySetBits(cfg, set, tag) ==
    BitOr(ShiftLeft(tag, getBlockOffsetBits(cfg) + getIndexBits(cfg)),
          ShiftLeft(set, getIndexBits(cfg)))

reconstructAddress(cfg, set, tag) ==
    BitOr(ShiftLeft(tag, getBlockOffsetBits(cfg) + getIndexBits(cfg)),
          ShiftLeft(set, getBlockOffsetBits(cfg)))

\* allocateEntry with the victim's address reported only for a dirty victim
allocateEntryDirtyOnly(cfg, c, set, tag, type, rnd) ==
    LET v == getVictim(cfg.policy, c.policy, set, getNumWays(cfg), rnd)
        victimEntry == c.entries[set][v.way]
    IN  [cache |-> [c EXCEPT !.entries[set][v.way] =
                                 [valid |-> TRUE, tag |-> tag,
                                  dirty |-> (type = "Write" /\ cfg.writeBack)],
                             !.policy = onAccess(cfg.policy, v.policy, set, v.way)],
         result |-> [hit |-> FALSE,
                     latency |-> 0,
                     writeBack |-> victimEntry.valid /\ cfg.writeBack /\ victimEntry.dirty,
                     evictedAddress |->
                         IF victimEntry.valid /\ cfg.writeBack /\ victimEntry.dirty
                         THEN Some(reconstructAddress(cfg, set, victimEntry.tag))
                         ELSE NoAddress,
                     evictedEntry |-> IF victimEntry.valid THEN Some(victimEntry)
                                      ELSE NoEntry]]

\* Cache::allocateEntry: the cache it leaves and its CacheResult
\* allocateEntry that charges the access latency once more (a miss penalty)
allocateEntryMissPenalty(cfg, c, set, tag, type, rnd) ==
    LET v == getVictim(cfg.policy, c.policy, set, getNumWays(cfg), rnd)
        victimEntry == c.entries[set][v.way]
    IN  [cache |-> [c EXCEPT !.entries[set][v.way] =
                                 [valid |-> TRUE, tag |-> tag,
                                  dirty |-> (type = "Write" /\ cfg.writeBack)],
                             !.policy = onAccess(cfg.policy, v.policy, set, v.way)],
         result |-> [hit |-> FALSE,
                     latency |-> cfg.accessLatency,
                     writeBack |-> victimEntry.valid /\ cfg.writeBack /\ victimEntry.dirty,
                     evictedAddress |->
                         IF victimEntry.valid
                         THEN Some(reconstructAddress(cfg, set, victimEntry.tag))
                         ELSE NoAddress,
                     evictedEntry |-> IF victimEntry.valid THEN Some(victimEntry)
                                      ELSE NoEntry]]

allocateEntry(cfg, c, set, tag, type, rnd) ==
    LET v == getVictim(cfg.policy, c.policy, set, getNumWays(cfg), rnd)
        way == v.way
        victimEntry == c.entries[set][way]
        reconstructedAddress ==
            BitOr(ShiftLeft(victimEntry.tag, getBlockOffsetBits(cfg) + getIndexBits(cfg)),
                  ShiftLeft(set, getBlockOffsetBits(cfg)))
        result ==
            [hit |-> FALSE,
             latency |-> 0,
             writeBack |-> victimEntry.valid /\ cfg.writeBack /\ victimEntry.dirty,
             evictedAddress |-> IF victimEntry.valid THEN Some(reconstructedAddress)
                                ELSE NoAddress,
             evictedEntry |-> IF victimEntry.valid THEN Some(victimEntry) ELSE NoEntry]
        newEntry == [valid |-> TRUE, tag |-> tag,
                     dirty |-> (type = "Write" /\ cfg.writeBack)]
    IN  [cache |-> [c EXCEPT !.entries[set][way] = newEntry,
                             !.policy = onAccess(cfg.policy, v.policy, set, way)],
         result |-> result]

\* Cache::access that allocates on every miss, whatever writeAllocate says
Cache_accessAlwaysAllocate(cfg, c, address, type, rnd) ==
    LET st == getSetAndTag(cfg, address)
        way == findEntry(c, st.set, st.tag)
        alloc == allocateEntry(cfg, [c EXCEPT !.misses = @ + 1], st.set, st.tag, type, rnd)
    IN  IF way # NoWay
        THEN [cache |-> [c EXCEPT !.hits = @ + 1,
                                  !.policy = onAccess(cfg.policy, @, st.set, way),
                                  !.entries[st.set][way].dirty =
                                      IF type = "Write" /\ cfg.writeBack THEN TRUE ELSE @],
              result |-> [NewResult(cfg.accessLatency) EXCEPT !.hit = TRUE]]
        ELSE [cache |-> alloc.cache,
              result |-> [NewResult(cfg.accessLatency) EXCEPT
                             !.writeBack = alloc.result.writeBack,
                             !.evictedAddress = alloc.result.evictedAddress]]

\* Cache::access: the cache it leaves and its CacheResult
Cache_access(cfg, c, address, type, rnd) ==
    LET st == getSetAndTag(cfg, address)
        way == findEntry(c, st.set, st.tag)
    IN  IF way # NoWay
        THEN [cache |-> [c EXCEPT !.hits = @ + 1,
                                  !.policy = onAccess(cfg.policy, @, st.set, way),
                                  !.entries[st.set][way].dirty =
                                      IF type = "Write" /\ cfg.writeBack THEN TRUE ELSE @],
              result |-> [NewResult(cfg.accessLatency) EXCEPT !.hit = TRUE]]
        ELSE IF type = "Read" \/ (type = "Write" /\ cfg.writeAllocate)
             THEN LET alloc == allocateEntry(cfg, [c EXCEPT !.misses = @ + 1],
                                             st.set, st.tag, type, rnd)
                  IN  [cache |-> alloc.cache,
                       \* evictedEntry of the allocation is not copied to the result
                       result |-> [NewResult(cfg.accessLatency) EXCEPT
                                      !.latency = @ + alloc.result.latency,
                                      !.writeBack = alloc.result.writeBack,
                                      !.evictedAddress = alloc.result.evictedAddress]]
             ELSE [cache |-> [c EXCEPT !.misses = @ + 1],
                   result |-> NewResult(cfg.accessLatency)]

\* reset that clears the entries and the counters and keeps the replacement state
Cache_resetKeepPolicy(cfg, c) ==
    [entries |-> [s \in DOMAIN c.entries |-> [w \in DOMAIN c.entries[s] |-> EmptyEntry]],
     policy |-> c.policy,
     hits |-> 0,
     misses |-> 0]

\* Cache::reset
Cache_reset(cfg, c) ==
    [entries |-> [s \in DOMAIN c.entries |-> [w \in DOMAIN c.entries[s] |-> EmptyEntry]],
     policy |-> Policy_reset(getNumSets(cfg)),
     hits |-> 0,
     misses |-> 0]

\* Cache::getEntry
getEntry(cfg, c, address) ==
    LET st == getSetAndTag(cfg, address)
        way == findEntry(c, st.set, st.tag)
    IN  IF way # NoWay THEN Some(c.entries[st.set][way]) ELSE NoEntry

\* Cache::contains
contains(cfg, c, address) ==
    LET st == getSetAndTag(cfg, address)
    IN  findEntry(c, st.set, st.tag) # NoWay

\* invalidateEntry that counts the lookup as an access of the cache
invalidateEntryCounted(cfg, c, address) ==
    LET st == getSetAndTag(cfg, address)
        way == findEntry(c, st.set, st.tag)
    IN  IF way # NoWay
        THEN [c EXCEPT !.entries[st.set][way] = EmptyEntry, !.hits = @ + 1]
        ELSE [c EXCEPT !.misses = @ + 1]

\* invalidateEntry that clears the valid bit only
invalidateEntryKeepDirty(cfg, c, address) ==
    LET st == getSetAndTag(cfg, address)
        way == findEntry(c, st.set, st.tag)
    IN  IF way # NoWay THEN [c EXCEPT !.entries[st.set][way].valid = FALSE] ELSE c

\* invalidateEntry that clears every way of the set of the block
invalidateEntrySet(cfg, c, address) ==
    LET st == getSetAndTag(cfg, address)
        way == findEntry(c, st.set, st.tag)
    IN  IF way # NoWay
        THEN [c EXCEPT !.entries[st.set] = [w \in DOMAIN c.entries[st.set] |-> EmptyEntry]]
        ELSE c

\* Cache::invalidateEntry
invalidateEntry(cfg, c, address) ==
    LET st == getSetAndTag(cfg, address)
        way == findEntry(c, st.set, st.tag)
    IN  IF way # NoWay THEN [c EXCEPT !.entries[st.set][way] = EmptyEntry] ELSE c

\* forceEntry that takes a victim without looking for the block in the set
forceEntryNoLookup(cfg, c, address, entry, type, rnd) ==
    LET st == getSetAndTag(cfg, address)
        v == getVictim(cfg.policy, c.policy, st.set, getNumWays(cfg), rnd)
        victimEntry == c.entries[st.set][v.way]
    IN  [cache |-> [c EXCEPT !.entries[st.set][v.way] =
                                 [valid |-> TRUE, tag |-> st.tag,
                                  dirty |-> IF type = "Write" /\ cfg.writeBack
                                            THEN TRUE ELSE entry.dirty],
                             !.policy = onAccess(cfg.policy, v.policy, st.set, v.way)],
         result |-> [hit |-> FALSE,
                     latency |-> cfg.accessLatency,
                     writeBack |-> victimEntry.valid /\ victimEntry.dirty,
                     evictedAddress |->
                         IF victimEntry.valid /\ victimEntry.dirty
                         THEN Some(reconstructAddress(cfg, st.set, victimEntry.tag))
                         ELSE NoAddress,
                     evictedEntry |-> IF victimEntry.valid THEN Some(victimEntry)
                                      ELSE NoEntry]]

\* forceEntry that installs the entry with the tag it came with
forceEntryKeepTag(cfg, c, address, entry, type, rnd) ==
    LET st == getSetAndTag(cfg, address)
        set == st.set
        tag == st.tag
        found == findEntry(c, set, tag)
        v == IF found # NoWay THEN [way |-> found, policy |-> c.policy]
             ELSE getVictim(cfg.policy, c.policy, set, getNumWays(cfg), rnd)
        way == v.way
        victimEntry == c.entries[set][way]
        result ==
            IF found # NoWay THEN NewResult(cfg.accessLatency)
            ELSE [hit |-> FALSE,
                  latency |-> cfg.accessLatency,
                  writeBack |-> victimEntry.valid /\ victimEntry.dirty,
                  evictedAddress |-> IF victimEntry.valid /\ victimEntry.dirty
                                     THEN Some(reconstructAddress(cfg, set, victimEntry.tag))
                                     ELSE NoAddress,
                  evictedEntry |-> IF victimEntry.valid THEN Some(victimEntry) ELSE NoEntry]
        newEntry == [valid |-> TRUE, tag |-> entry.tag,
                     dirty |-> IF type = "Write" /\ cfg.writeBack THEN TRUE ELSE entry.dirty]
    IN  [cache |-> [c EXCEPT !.entries[set][way] = newEntry,
                             !.policy = onAccess(cfg.policy, v.policy, set, way)],
         result |-> result]

\* forceEntry that installs the entry without the dirty bit it came with
forceEntryCleanCopy(cfg, c, address, entry, type, rnd) ==
    LET st == getSetAndTag(cfg, address)
        set == st.set
        tag == st.tag
        found == findEntry(c, set, tag)
        v == IF found # NoWay THEN [way |-> found, policy |-> c.policy]
             ELSE getVictim(cfg.policy, c.policy, set, getNumWays(cfg), rnd)
        way == v.way
        victimEntry == c.entries[set][way]
        result ==
            IF found # NoWay THEN NewResult(cfg.accessLatency)
            ELSE [hit |-> FALSE,
                  latency |-> cfg.accessLatency,
                  writeBack |-> victimEntry.valid /\ victimEntry.dirty,
                  evictedAddress |-> IF victimEntry.valid /\ victimEntry.dirty
                                     THEN Some(reconstructAddress(cfg, set, victimEntry.tag))
                                     ELSE NoAddress,
                  evictedEntry |-> IF victimEntry.valid THEN Some(victimEntry) ELSE NoEntry]
        newEntry == [valid |-> TRUE, tag |-> tag,
                     dirty |-> type = "Write" /\ cfg.writeBack]
    IN  [cache |-> [c EXCEPT !.entries[set][way] = newEntry,
                             !.policy = onAccess(cfg.policy, v.policy, set, way)],
         result |-> result]

\* Cache::forceEntry: the cache it leaves and its CacheResult
forceEntry(cfg, c, address, entry, type, rnd) ==
    LET st == getSetAndTag(cfg, address)
        set == st.set
        tag == st.tag
        found == findEntry(c, set, tag)
        v == IF found # NoWay THEN [way |-> found, policy |-> c.policy]
             ELSE getVictim(cfg.policy, c.policy, set, getNumWays(cfg), rnd)
        way == v.way
        victimEntry == c.entries[set][way]
        result ==
            IF found # NoWay THEN NewResult(cfg.accessLatency)
            ELSE [hit |-> FALSE,
                  latency |-> cfg.accessLatency,
                  writeBack |-> victimEntry.valid /\ victimEntry.dirty,
                  evictedAddress |-> IF victimEntry.valid /\ victimEntry.dirty
                                     THEN Some(reconstructAddress(cfg, set, victimEntry.tag))
                                     ELSE NoAddress,
                  evictedEntry |-> IF victimEntry.valid THEN Some(victimEntry) ELSE NoEntry]
        newEntry == [valid |-> TRUE, tag |-> tag,
                     dirty |-> IF type = "Write" /\ cfg.writeBack THEN TRUE ELSE entry.dirty]
    IN  [cache |-> [c EXCEPT !.entries[set][way] = newEntry,
                             !.policy = onAccess(cfg.policy, v.policy, set, way)],
         result |-> result]

(***************************************************************************)
(* CacheHierarchy with two levels: cs[0] is caches_[0] (L1), cs[1] is      *)
(* caches_[1] (L2), cfgs their configurations, tracker evictionTracker_.   *)
(* r[1] .. r[5] are the values the random policy would draw in the calls   *)
(* of getVictim, in the order of the calls in the code.                    *)
(***************************************************************************)
\* EvictionTracker
NewTracker == [hasEviction |-> FALSE, address |-> 0, entry |-> EmptyEntry]

\* the capture of an eviction from L1 in the tracker
captureEviction(l1cfg, tracker, res) ==
    IF res.evictedAddress.has
    THEN [hasEviction |-> TRUE,
          address |-> res.evictedAddress.val,
          entry |-> IF res.evictedEntry.has THEN res.evictedEntry.val
                    ELSE [valid |-> TRUE, dirty |-> FALSE,
                          tag |-> getSetAndTag(l1cfg, res.evictedAddress.val).tag]]
    ELSE tracker

\* CacheHierarchy::backinvalidate(address, 1)
backinvalidate(cfgs, cs, address) ==
    [cs EXCEPT ![0] = invalidateEntry(cfgs[0], cs[0], address)]

\* the first part without the reset of the tracker
accessL1KeepTracker(cfgs, cs, tracker0, address, type, r1) ==
    LET hasExclusiveL2 == cfgs[1].inclusionPolicy = "Exclusive"
        l1 == Cache_access(cfgs[0], cs[0], address, type, r1)
    IN  [caches |-> [cs EXCEPT ![0] = l1.cache],
         tracker |-> IF hasExclusiveL2
                     THEN captureEviction(cfgs[0], tracker0,
                                          l1.result)
                     ELSE tracker0,
         latency |-> l1.result.latency,
         hit |-> l1.result.hit,
         l1hit |-> l1.result.hit]

\* CacheHierarchy::access, first part: the access of L1 and the capture of its
\* eviction; l1hit tells that the access returns here
accessL1(cfgs, cs, tracker0, address, type, r1) ==
    LET hasExclusiveL2 == cfgs[1].inclusionPolicy = "Exclusive"
        l1 == Cache_access(cfgs[0], cs[0], address, type, r1)
    IN  [caches |-> [cs EXCEPT ![0] = l1.cache],
         tracker |-> IF hasExclusiveL2
                     THEN captureEviction(cfgs[0], [tracker0 EXCEPT !.hasEviction = FALSE],
                                          l1.result)
                     ELSE [tracker0 EXCEPT !.hasEviction = FALSE],
         latency |-> l1.result.latency,
         hit |-> l1.result.hit,
         l1hit |-> l1.result.hit]

\* the search that leaves the block of an exclusive hit in the lower level
accessSearchNoInvalidate(cfgs, a, address, type, r2, r3) ==
    LET l2 == Cache_access(cfgs[1], a.caches[1], address, type, r2)
        entry == getEntry(cfgs[1], l2.cache, address)
        l1f == forceEntry(cfgs[0], a.caches[0], address, entry.val, type, r3)
    IN  IF a.l1hit THEN a
        ELSE IF l2.result.hit /\ cfgs[1].inclusionPolicy = "Exclusive" /\ entry.has
        THEN [a EXCEPT !.caches = [a.caches EXCEPT ![0] = l1f.cache, ![1] = l2.cache],
                       !.tracker = captureEviction(cfgs[0], a.tracker, l1f.result),
                       !.latency = a.latency + l2.result.latency,
                       !.hit = TRUE]
        ELSE [a EXCEPT !.caches = [a.caches EXCEPT ![1] = l2.cache],
                       !.latency = a.latency + l2.result.latency,
                       !.hit = l2.result.hit]

\* the search that goes on to the lower level after a hit in L1
accessSearchOnL1Hit(cfgs, a, address, type, r2, r3) ==
    LET l2 == Cache_access(cfgs[1], a.caches[1], address, type, r2)
        entry == getEntry(cfgs[1], l2.cache, address)
        l1f == forceEntry(cfgs[0], a.caches[0], address, entry.val, type, r3)
    IN  IF l2.result.hit /\ cfgs[1].inclusionPolicy = "Exclusive" /\ entry.has
        THEN [a EXCEPT !.caches = [a.caches EXCEPT
                                      ![0] = l1f.cache,
                                      ![1] = invalidateEntry(cfgs[1], l2.cache, address)],
                       !.tracker = captureEviction(cfgs[0], a.tracker, l1f.result),
                       !.latency = a.latency + l2.result.latency,
                       !.hit = TRUE]
        ELSE [a EXCEPT !.caches = [a.caches EXCEPT ![1] = l2.cache],
                       !.latency = a.latency + l2.result.latency,
                       !.hit = l2.result.hit]

\* second part: the search of the lower level (the loop over i >= 1), with the
\* promotion of an exclusive hit into L1
accessSearch(cfgs, a, address, type, r2, r3) ==
    LET l2 == Cache_access(cfgs[1], a.caches[1], address, type, r2)
        entry == getEntry(cfgs[1], l2.cache, address)
        l1f == forceEntry(cfgs[0], a.caches[0], address, entry.val, type, r3)
    IN  IF a.l1hit THEN a
        ELSE IF l2.result.hit /\ cfgs[1].inclusionPolicy = "Exclusive" /\ entry.has
        THEN [a EXCEPT !.caches = [a.caches EXCEPT
                                      ![0] = l1f.cache,
                                      ![1] = invalidateEntry(cfgs[1], l2.cache, address)],
                       !.tracker = captureEviction(cfgs[0], a.tracker, l1f.result),
                       !.latency = a.latency + l2.result.latency,
                       !.hit = TRUE]
        ELSE [a EXCEPT !.caches = [a.caches EXCEPT ![1] = l2.cache],
                       !.latency = a.latency + l2.result.latency,
                       !.hit = l2.result.hit]

\* the allocation that skips the cleanup of an exclusive lower level
accessAllocateNoCleanup(cfgs, b, address, type, r4) ==
    LET l2 == Cache_access(cfgs[1], b.caches[1], address, type, r4)
        cs2 == [b.caches EXCEPT ![1] = l2.cache]
    IN  IF b.l1hit \/ b.hit \/ (type = "Write" /\ ~cfgs[0].writeAllocate) THEN b
        ELSE IF cfgs[1].inclusionPolicy = "Inclusive"
        THEN [b EXCEPT !.caches = IF l2.result.evictedAddress.has
                                  THEN backinvalidate(cfgs, cs2, l2.result.evictedAddress.val)
                                  ELSE cs2,
                       !.latency = b.latency + l2.result.latency]
        ELSE b

\* third part: the allocation after a miss in every level
accessAllocate(cfgs, b, address, type, r4) ==
    LET l2 == Cache_access(cfgs[1], b.caches[1], address, type, r4)
        cs2 == [b.caches EXCEPT ![1] = l2.cache]
    IN  IF b.l1hit THEN b
        ELSE IF ~b.hit /\ (type = "Read" \/ (type = "Write" /\ cfgs[0].writeAllocate))
        THEN IF cfgs[1].inclusionPolicy = "Exclusive"
             THEN [b EXCEPT !.caches[1] = invalidateEntry(cfgs[1], b.caches[1], address)]
             ELSE IF cfgs[1].inclusionPolicy = "Inclusive"
                  THEN [b EXCEPT !.caches =
                                     IF l2.result.evictedAddress.has
                                     THEN backinvalidate(cfgs, cs2,
                                                         l2.result.evictedAddress.val)
                                     ELSE cs2,
                                 !.latency = b.latency + l2.result.latency]
                  ELSE b
        ELSE b

\* last part: the tracked victim of L1 goes to an exclusive L2
accessFinish(cfgs, c, address, r5) ==
    IF /\ ~c.l1hit
       /\ cfgs[1].inclusionPolicy = "Exclusive"
       /\ c.tracker.hasEviction
       /\ c.tracker.address # address
    THEN [c EXCEPT !.caches[1] = forceEntry(cfgs[1], c.caches[1], c.tracker.address,
                                            c.tracker.entry, "Write", r5).cache]
    ELSE c

\* CacheHierarchy::access; r[1] .. r[5] are the draws of the calls of getVictim,
\* in the order of the calls: L1 access, L2 access, promotion into L1, second L2
\* access, victim into L2; the result has latency = totalLatency, hit = hitInCache
CacheHierarchy_access(cfgs, cs, tracker0, address, type, r) ==
    accessFinish(cfgs,
                 accessAllocate(cfgs,
                                accessSearch(cfgs,
                                             accessL1(cfgs, cs, tracker0, address, type, r[1]),
                                             address, type, r[2], r[3]),
                                address, type, r[4]),
                 address, r[5])

\* the values dist(rng) can yield when a cache is asked to install the block of
\* address: getVictim is called only for a block that is not resident, and it
\* draws only when every way of the set is marked used
Draws(cfg, c, address) ==
    IF /\ cfg.policy = "RANDOM"
       /\ ~contains(cfg, c, address)
       /\ FirstUnused(c.policy.usedWays[getSetAndTag(cfg, address).set],
                      getNumWays(cfg)) = getNumWays(cfg)
    THEN 0..(getNumWays(cfg) - 1)
    ELSE {0}

(***************************************************************************)
(* State.                                                                  *)
(*   config           CacheConfig of each level (fixed at construction)    *)
(*   caches           the Cache objects of the hierarchy                   *)
(*   evictionTracker  CacheHierarchy::evictionTracker_                     *)
(*   accesses         number of accesses the driver has issued             *)
(*   last             the last call: its arguments, what it returned, and  *)
(*                    what it removed and counted                          *)
(*   history          the calls made so far, in the runs that record them  *)
(*   policyObjects    the replacement policy objects on the heap            *)
(*   policy_          Cache::policy_ of each cache: the policy object it    *)
(*                    points to (used by the runs that copy a cache; the    *)
(*                    other runs keep each cache's policy in its record)    *)
(*   memory           MainMemory: reads_ and writes_                        *)
(***************************************************************************)
VARIABLES config, caches, evictionTracker, accesses, last, history,
          policyObjects, policy_, memory

vars == <<config, caches, evictionTracker, accesses, last, history,
          policyObjects, policy_, memory>>

\* the first addresses of the blocks that the valid entries of a cache hold, as
\* reconstructAddress rebuilds them from the set and the tag
ResidentBlocks(c, blockOffsetBits, indexBits) ==
    UNION { { BitOr(ShiftLeft(c.entries[s][w].tag, blockOffsetBits + indexBits),
                    ShiftLeft(s, blockOffsetBits)) :
                w \in {v \in DOMAIN c.entries[s] : c.entries[s][v].valid} } :
            s \in DOMAIN c.entries }

\* the blocks resident in a cache, each named by its first address
Resident(cfg, c) == ResidentBlocks(c, getBlockOffsetBits(cfg), getIndexBits(cfg))

\* the first address of the block of a
BlockBase(cfg, a) == a - getBlockOffset(a, getBlockOffsetBits(cfg))

\* the entry that holds the block of a resident address
EntryOf(cfg, c, a) == getEntry(cfg, c, a).val

Organizations == {"DirectMapped", "SetAssociative", "FullyAssociative"}
InclusionPolicies == {"Inclusive", "Exclusive", "NINE"}

\* latencies used by the tests of the hierarchy
L1Latency == 1
L2Latency == 10

\* block size of both levels
BlockSize == 2

\* L1: two sets of one way, or one set of two ways
L1Geometries ==
    { [organization |-> "DirectMapped", size |-> 2 * BlockSize, associativity |-> 1],
      [organization |-> "FullyAssociative", size |-> 2 * BlockSize, associativity |-> 1] }

\* L2: one set of two ways
L2Geometries ==
    { [organization |-> "SetAssociative", size |-> 2 * BlockSize, associativity |-> 2] }

MakeConfig(g, level, policy, latency, wb, wa, incl) ==
    [organization |-> g.organization, size |-> g.size, blockSize |-> BlockSize,
     associativity |-> g.associativity, policy |-> policy, accessLatency |-> latency,
     writeBack |-> wb, writeAllocate |-> wa, level |-> level, inclusionPolicy |-> incl]

\* the configurations of a two-level hierarchy
HierarchyConfigs ==
    { [l \in Levels |-> IF l = 0
                        THEN MakeConfig(g1, 1, p, L1Latency, wb[0], wa[0], "Inclusive")
                        ELSE MakeConfig(g2, 2, p, L2Latency, wb[1], wa[1], incl)] :
        g1 \in L1Geometries, g2 \in L2Geometries, p \in Policies,
        wb \in [Levels -> BOOLEAN], wa \in [Levels -> BOOLEAN],
        incl \in InclusionPolicies }

NoCall ==
    [op |-> "none", level |-> 0, address |-> 0, type |-> "Read", entry |-> EmptyEntry,
     result |-> NewResult(0), found |-> NoEntry, l1hit |-> FALSE,
     removed |-> [l \in Levels |-> {}], counted |-> [l \in Levels |-> 0]]

Removed(cfgs, cs, cs2) ==
    [l \in Levels |-> Resident(cfgs[l], cs[l]) \ Resident(cfgs[l], cs2[l])]

Counted(cs, cs2) ==
    [l \in Levels |-> (cs2[l].hits + cs2[l].misses) - (cs[l].hits + cs[l].misses)]

\* MainMemory::MainMemory
NewMemory == [reads |-> 0, writes |-> 0]

InitWith(cfgs) ==
    /\ config = cfgs
    /\ caches = [l \in Levels |-> NewCache(cfgs[l])]
    /\ evictionTracker = NewTracker
    /\ accesses = 0
    /\ last = NoCall
    /\ history = << >>
    /\ policyObjects = [r \in Levels |-> NewPolicy(getNumSets(cfgs[r]))]
    /\ policy_ = [l \in Levels |-> l]
    /\ memory = NewMemory

Init == \E cfgs \in HierarchyConfigs : InitWith(cfgs)

\* the draws of the last call of getVictim, the victim's move into L2
DrawsVictim(cfgs, c) == Draws(cfgs[1], c.caches[1], c.tracker.address)

\* what the driver sees of a call of hierarchy.access that turns cs into out.caches
HierarchyCall(cfgs, cs, address, type, out) ==
    [NoCall EXCEPT !.op = "hierarchy", !.address = address, !.type = type,
                   !.result = [NewResult(out.latency) EXCEPT !.hit = out.hit],
                   !.l1hit = out.l1hit,
                   !.removed = Removed(cfgs, cs, out.caches),
                   !.counted = Counted(cs, out.caches)]

HierarchyStep(address, type, out) ==
    /\ caches' = out.caches
    /\ evictionTracker' = out.tracker
    /\ accesses' = accesses + 1
    /\ last' = HierarchyCall(config, caches, address, type, out)
    /\ UNCHANGED <<config, history, policyObjects, policy_>>

\* the parts of CacheHierarchy::access in turn, each with the draws its calls of
\* getVictim can make in the caches the part before it has left
HierarchyFinish(address, type, c) ==
    \E r5 \in DrawsVictim(config, c) :
        HierarchyStep(address, type, accessFinish(config, c, address, r5))

HierarchyAllocate(address, type, b) ==
    \E r4 \in Draws(config[1], b.caches[1], address) :
        HierarchyFinish(address, type, accessAllocate(config, b, address, type, r4))

HierarchySearch(address, type, a) ==
    \E r2 \in Draws(config[1], a.caches[1], address),
       r3 \in Draws(config[0], a.caches[0], address) :
        HierarchyAllocate(address, type, accessSearch(config, a, address, type, r2, r3))

\* the driver issues hierarchy.access(address, type)
HierarchyAccess ==
    /\ accesses < MaxAccesses
    /\ \E address \in Addresses, type \in AccessTypes :
       \E r1 \in Draws(config[0], caches[0], address) :
          HierarchySearch(address, type,
                          accessL1(config, caches, evictionTracker, address, type, r1))
    /\ UNCHANGED memory

(***************************************************************************)
(* Calls on a single Cache (level l of the hierarchy), as the tests and the *)
(* hierarchy issue them.                                                   *)
(***************************************************************************)
\* the entries handed to forceEntry
ForcedEntries == [valid : {TRUE}, dirty : BOOLEAN, tag : {0}]

\* what the caller sees of a call that turns cache c into c2
CacheCall(op, l, address, type, entry, c, c2, result, found) ==
    [NoCall EXCEPT !.op = op, !.level = l, !.address = address, !.type = type,
                   !.entry = entry, !.result = result, !.found = found,
                   !.removed[l] = Resident(config[l], c) \ Resident(config[l], c2),
                   !.counted[l] = (c2.hits + c2.misses) - (c.hits + c.misses)]

CacheStep(op, l, address, type, entry, out, found) ==
    /\ caches' = [caches EXCEPT ![l] = out.cache]
    /\ accesses' = accesses + 1
    /\ last' = CacheCall(op, l, address, type, entry, caches[l], out.cache,
                         out.result, found)
    /\ UNCHANGED <<config, evictionTracker, history, policyObjects, policy_, memory>>

\* cache.access(address, type)
Access(l) ==
    /\ accesses < MaxAccesses
    /\ \E address \in Addresses, type \in AccessTypes :
       \E rnd \in Draws(config[l], caches[l], address) :
          CacheStep("access", l, address, type, EmptyEntry,
                    Cache_access(config[l], caches[l], address, type, rnd), NoEntry)

\* cache.forceEntry(address, entry, type)
ForceEntry(l) ==
    /\ accesses < MaxAccesses
    /\ \E address \in Addresses, type \in AccessTypes, entry \in ForcedEntries :
       \E rnd \in Draws(config[l], caches[l], address) :
          CacheStep("forceEntry", l, address, type, entry,
                    forceEntry(config[l], caches[l], address, entry, type, rnd), NoEntry)

\* cache.invalidateEntry(address)
InvalidateEntry(l) ==
    /\ accesses < MaxAccesses
    /\ \E address \in Addresses :
          CacheStep("invalidateEntry", l, address, "Read", EmptyEntry,
                    [cache |-> invalidateEntry(config[l], caches[l], address),
                     result |-> NewResult(0)],
                    NoEntry)

\* cache.getEntry(address) and cache.contains(address): const, they return
\* what they find
GetEntry(l) ==
    /\ accesses < MaxAccesses
    /\ \E address \in Addresses :
          CacheStep("getEntry", l, address, "Read", EmptyEntry,
                    [cache |-> caches[l], result |-> NewResult(0)],
                    getEntry(config[l], caches[l], address))

Contains(l) ==
    /\ accesses < MaxAccesses
    /\ \E address \in Addresses :
          CacheStep("contains", l, address, "Read", EmptyEntry,
                    [cache |-> caches[l], result |-> NewResult(0)],
                    IF contains(config[l], caches[l], address)
                    THEN Some(EmptyEntry) ELSE NoEntry)

\* cache.reset()
Reset(l) ==
    /\ accesses < MaxAccesses
    /\ CacheStep("reset", l, 0, "Read", EmptyEntry,
                 [cache |-> Cache_reset(config[l], caches[l]), result |-> NewResult(0)],
                 NoEntry)

\* the configurations of a single cache (level 0; level 1 stays as constructed)
CacheConfigs == {cfgs \in HierarchyConfigs : cfgs[1] = MakeConfig(
                    CHOOSE g \in L2Geometries : TRUE, 2, cfgs[0].policy, L2Latency,
                    TRUE, TRUE, "Inclusive")}

InitCache == \E cfgs \in CacheConfigs : InitWith(cfgs)

NextCache ==
    \/ Access(0)
    \/ ForceEntry(0)
    \/ InvalidateEntry(0)
    \/ GetEntry(0)
    \/ Contains(0)
    \/ Reset(0)

\* a single cache under the calls of its interface
SpecCache == InitCache /\ [][NextCache]_vars

InitExclusive ==
    \E cfgs \in {c \in HierarchyConfigs : c[1].inclusionPolicy = "Exclusive"} :
        InitWith(cfgs)

InitInclusive ==
    \E cfgs \in {c \in HierarchyConfigs : c[1].inclusionPolicy = "Inclusive"} :
        InitWith(cfgs)

\* the hierarchy with an exclusive, resp. inclusive, second level
SpecExclusive == InitExclusive /\ [][HierarchyAccess]_vars

SpecInclusive == InitInclusive /\ [][HierarchyAccess]_vars

Next == HierarchyAccess

Spec == Init /\ [][Next]_vars

(***************************************************************************)
(* The properties of the hierarchy and of a single cache.                  *)
(***************************************************************************)
L1Blocks == Resident(config[0], caches[0])
L2Blocks == Resident(config[1], caches[1])

\* C1: with an exclusive L2, after every completed hierarchy access no block
\* is valid in both L1 and L2.
C1_Exclusivity ==
    config[1].inclusionPolicy = "Exclusive" => L1Blocks \cap L2Blocks = {}

\* an access displaced a block of L1, which now sits in L2 beside other blocks of L1
C1_Witness ==
    /\ config[1].inclusionPolicy = "Exclusive"
    /\ last.op = "hierarchy"
    /\ last.removed[0] # {}
    /\ last.removed[0] \subseteq L2Blocks
    /\ L1Blocks # {}

\* C2: with an inclusive L2 and both levels write-allocate, after every
\* completed hierarchy access every block valid in L1 is also valid in L2.
C2_Inclusion ==
    (/\ config[1].inclusionPolicy = "Inclusive"
     /\ config[0].writeAllocate
     /\ config[1].writeAllocate)
    => L1Blocks \subseteq L2Blocks

\* an access of an inclusive, write-allocate hierarchy made L2 displace a block
C2_Witness ==
    /\ config[1].inclusionPolicy = "Inclusive"
    /\ config[0].writeAllocate
    /\ config[1].writeAllocate
    /\ last.op = "hierarchy"
    /\ last.removed[1] # {}

\* C3: in every cache level, each set holds at most one valid way with a
\* given tag, whatever calls of access, forceEntry, invalidateEntry and reset
\* came before.
C3_SetUniqueness ==
    \A l \in Levels : \A s \in DOMAIN caches[l].entries :
        \A w1, w2 \in DOMAIN caches[l].entries[s] :
            (/\ w1 # w2
             /\ caches[l].entries[s][w1].valid
             /\ caches[l].entries[s][w2].valid)
            => caches[l].entries[s][w1].tag # caches[l].entries[s][w2].tag

\* forceEntry wrote a block into a set of two valid ways and displaced none: the
\* block was resident already
C3_Witness ==
    /\ last.op = "forceEntry"
    /\ last.removed[0] = {}
    /\ \E s \in DOMAIN caches[0].entries :
          /\ Cardinality(DOMAIN caches[0].entries[s]) = 2
          /\ \A w \in DOMAIN caches[0].entries[s] : caches[0].entries[s][w].valid

\* C4: with an exclusive L2, every valid block V that a hierarchy access
\* displaces from L1, clean or dirty, by the miss allocation or by the promotion
\* of an L2 hit, and that is not the block accessed, is valid in L2 when the
\* access returns.
C4_VictimCaching ==
    (config[1].inclusionPolicy = "Exclusive" /\ last.op = "hierarchy")
    => \A V \in last.removed[0] :
          V # BlockBase(config[0], last.address) => V \in L2Blocks

\* the promotion of an L2 hit displaced a block of L1
C4_Witness ==
    /\ config[1].inclusionPolicy = "Exclusive"
    /\ last.op = "hierarchy"
    /\ ~last.l1hit
    /\ last.result.hit
    /\ last.removed[0] # {}

\* C5: with an exclusive L2, a hierarchy access of a block that L1 does not
\* hold and L2 holds ends with the block valid in L1 and not valid in L2, and
\* reports a hit.
C5_ExclusivePromotion ==
    [][(/\ last'.op = "hierarchy"
        /\ config[1].inclusionPolicy = "Exclusive"
        /\ ~contains(config[0], caches[0], last'.address)
        /\ contains(config[1], caches[1], last'.address))
       => /\ contains(config[0], caches'[0], last'.address)
          /\ ~contains(config[1], caches'[1], last'.address)
          /\ last'.result.hit]_vars

\* an access missed L1, hit the exclusive L2 and left the block in L1
C5_Witness ==
    /\ config[1].inclusionPolicy = "Exclusive"
    /\ last.op = "hierarchy"
    /\ ~last.l1hit
    /\ last.result.hit
    /\ BlockBase(config[0], last.address) \in L1Blocks
    /\ BlockBase(config[0], last.address) \in last.removed[1]

\* C6: with an inclusive L2, a valid block V that a hierarchy access makes L2
\* displace is not valid in L1 when the access returns.
C6_BackInvalidation ==
    (config[1].inclusionPolicy = "Inclusive" /\ last.op = "hierarchy")
    => last.removed[1] \cap L1Blocks = {}

\* an access made the inclusive L2 displace a block
C6_Witness ==
    /\ config[1].inclusionPolicy = "Inclusive"
    /\ last.op = "hierarchy"
    /\ ~last.l1hit
    /\ last.removed[1] # {}

\* C7: L1.hits + L1.misses is the number of hierarchy accesses, L2.hits +
\* L2.misses the number of accesses that missed L1, and one hierarchy access
\* changes hits + misses of a level by at most one.
C7_CounterAccounting ==
    /\ caches[0].hits + caches[0].misses = accesses
    /\ caches[1].hits + caches[1].misses = caches[0].misses
    /\ \A l \in Levels : last.counted[l] <= 1

\* an access missed L1 and went to L2
C7_Witness ==
    /\ last.op = "hierarchy"
    /\ ~last.l1hit
    /\ last.counted[1] > 0

\* C8: forceEntry, invalidateEntry, getEntry and contains leave hits and
\* misses of the cache as they are; access adds one to exactly one of them.
C8_InternalTransfersDoNotCount ==
    [][/\ last'.op \in {"forceEntry", "invalidateEntry", "getEntry", "contains"}
          => /\ caches'[0].hits = caches[0].hits
             /\ caches'[0].misses = caches[0].misses
       /\ last'.op = "access"
          => \/ /\ caches'[0].hits = caches[0].hits + 1
                /\ caches'[0].misses = caches[0].misses
             \/ /\ caches'[0].hits = caches[0].hits
                /\ caches'[0].misses = caches[0].misses + 1]_vars

\* invalidateEntry removed a block of a cache that has counted a hit and a miss
C8_Witness ==
    /\ last.op = "invalidateEntry"
    /\ last.removed[0] # {}
    /\ caches[0].hits = 1
    /\ caches[0].misses = 1

\* C9: the result of Cache::access has writeBack exactly when the allocation
\* displaces a valid dirty entry of a write-back cache; evictedAddress is the
\* first address of the block of the displaced valid entry, rebuilt from its tag
\* and the set; with no valid entry displaced there is no evictedAddress and no
\* writeBack.
C9_WriteBackReporting ==
    [][last'.op = "access"
       => LET displaced == Resident(config[0], caches[0]) \ Resident(config[0], caches'[0])
          IN  /\ Cardinality(displaced) <= 1
              /\ last'.result.writeBack =
                    (\E V \in displaced :
                        config[0].writeBack /\ EntryOf(config[0], caches[0], V).dirty)
              /\ \A V \in displaced :
                    /\ last'.result.evictedAddress = Some(V)
                    /\ V = reconstructAddress(config[0],
                                              getSetAndTag(config[0], V).set,
                                              EntryOf(config[0], caches[0], V).tag)
              /\ displaced = {} => /\ ~last'.result.evictedAddress.has
                                   /\ ~last'.result.writeBack]_vars

\* an access displaced a dirty block of a write-back cache and reported it
C9_Witness ==
    /\ last.op = "access"
    /\ config[0].writeBack
    /\ last.result.writeBack
    /\ last.result.evictedAddress.has
    /\ last.result.evictedAddress.val \in last.removed[0]

\* C10: a write that misses in a cache without write-allocate changes only the
\* miss counter of the cache, and a read of the same block that follows misses.
C10_NoWriteAllocate ==
    [][(/\ last'.op = "access"
        /\ last'.type = "Write"
        /\ ~config[0].writeAllocate
        /\ ~contains(config[0], caches[0], last'.address))
       => /\ caches'[0] = [caches[0] EXCEPT !.misses = @ + 1]
          /\ ~last'.result.hit
          /\ ~Cache_access(config[0], caches'[0], last'.address, "Read", 0).result.hit]_vars

\* a write missed in a cache without write-allocate that holds other blocks
C10_Witness ==
    /\ last.op = "access"
    /\ last.type = "Write"
    /\ ~config[0].writeAllocate
    /\ ~last.result.hit
    /\ L1Blocks # {}
    /\ caches[0].misses >= 2

\* the entries of the cache of level l
EntriesOf(l) ==
    { caches[l].entries[s][w] : <<s, w>> \in
        UNION { {<<t, v>> : v \in DOMAIN caches[l].entries[t]} : t \in DOMAIN caches[l].entries } }

\* C11: in every cache level every entry that is dirty is also valid, whatever
\* calls of access, forceEntry, invalidateEntry and reset came before.
C11_DirtyImpliesValid ==
    \A l \in Levels : \A e \in EntriesOf(l) : e.dirty => e.valid

\* invalidateEntry removed a block of a cache that holds a dirty entry
C11_Witness ==
    /\ last.op = "invalidateEntry"
    /\ last.removed[0] # {}
    /\ \E e \in EntriesOf(0) : e.dirty
    /\ \E e \in EntriesOf(0) : ~e.valid

\* C12: a cache level with writeBack = false never holds a dirty entry, also
\* when the hierarchy installs in it an entry copied from a write-back level.
C12_WriteThroughNeverDirty ==
    \A l \in Levels : ~config[l].writeBack => \A e \in EntriesOf(l) : ~e.dirty

\* an exclusive hit moved a block from a write-back L2 into a write-through L1
C12_Witness ==
    /\ config[1].inclusionPolicy = "Exclusive"
    /\ ~config[0].writeBack
    /\ config[1].writeBack
    /\ last.op = "hierarchy"
    /\ ~last.l1hit
    /\ last.result.hit
    /\ BlockBase(config[0], last.address) \in L1Blocks

\* the driver issues hierarchy.access(address, AccessType::Read)
HierarchyRead ==
    /\ accesses < MaxAccesses
    /\ \E address \in Addresses :
       \E r1 \in Draws(config[0], caches[0], address) :
          HierarchySearch(address, "Read",
                          accessL1(config, caches, evictionTracker, address, "Read", r1))
    /\ UNCHANGED memory

\* the hierarchy, of every inclusion policy, under reads only
SpecReadOnly == Init /\ [][HierarchyRead]_vars

\* C13: when every access of a run is a Read, no entry of a write-back level
\* becomes dirty, under every inclusion policy.
C13_ReadsLeaveNoDirtyEntry ==
    \A l \in Levels : config[l].writeBack => \A e \in EntriesOf(l) : ~e.dirty

\* a read displaced a block of L1 into the exclusive write-back L2
C13_Witness ==
    /\ config[1].inclusionPolicy = "Exclusive"
    /\ config[1].writeBack
    /\ last.op = "hierarchy"
    /\ last.type = "Read"
    /\ last.removed[0] # {}
    /\ last.removed[0] \subseteq L2Blocks

\* C14: Cache::reset leaves the cache as a newly constructed cache of the same
\* configuration (entries, counters and replacement state; LRU and FIFO), so
\* every access that follows has the outcome, the eviction report and the
\* counters it has on a new cache.
C14_ResetIdentity ==
    [][(last'.op = "reset" /\ config[0].policy \in {"LRU", "FIFO"})
       => /\ caches'[0] = NewCache(config[0])
          /\ \A address \in Addresses, type \in AccessTypes :
                Cache_access(config[0], caches'[0], address, type, 0)
                    = Cache_access(config[0], NewCache(config[0]), address, type, 0)]_vars

\* reset was called on an LRU or FIFO cache that held two blocks and had moved
\* its replacement state
C14_Witness ==
    /\ last.op = "reset"
    /\ config[0].policy \in {"LRU", "FIFO"}
    /\ Cardinality(last.removed[0]) = 2
    /\ caches[0] = NewCache(config[0])

\* C15: for every cache state and address, invalidateEntry called twice leaves
\* the state that one call leaves; after it the block of the address is not
\* resident, and every entry that does not hold that block is unchanged.
C15_InvalidateIdempotent ==
    \A address \in Addresses :
        LET once == invalidateEntry(config[0], caches[0], address)
            st == getSetAndTag(config[0], address)
        IN  /\ invalidateEntry(config[0], once, address) = once
            /\ ~contains(config[0], once, address)
            /\ \A s \in DOMAIN caches[0].entries : \A w \in DOMAIN caches[0].entries[s] :
                  once.entries[s][w] # caches[0].entries[s][w]
                  => /\ s = st.set
                     /\ caches[0].entries[s][w].valid
                     /\ caches[0].entries[s][w].tag = st.tag

\* invalidateEntry removed one of two blocks of a set, and a second call for the
\* same address finds nothing to remove
C15_Witness ==
    /\ last.op = "invalidateEntry"
    /\ last.removed[0] # {}
    /\ \E s \in DOMAIN caches[0].entries :
          /\ \E w \in DOMAIN caches[0].entries[s] : caches[0].entries[s][w].valid
          /\ \E w \in DOMAIN caches[0].entries[s] : ~caches[0].entries[s][w].valid
          /\ getSetAndTag(config[0], last.address).set = s
    /\ invalidateEntry(config[0], caches[0], last.address) = caches[0]

(***************************************************************************)
(* Runs that record their calls: every call appends what `last` says of it  *)
(* to history.                                                             *)
(***************************************************************************)
TracedStep(op, l, address, type, out) ==
    /\ caches' = [caches EXCEPT ![l] = out.cache]
    /\ accesses' = accesses + 1
    /\ last' = CacheCall(op, l, address, type, EmptyEntry, caches[l], out.cache,
                         out.result, NoEntry)
    /\ history' = Append(history, last')
    /\ UNCHANGED <<config, evictionTracker, policyObjects, policy_, memory>>

\* cache.access(address, type), recorded
TracedAccess(l) ==
    /\ Len(history) < MaxTrace
    /\ \E address \in Addresses, type \in AccessTypes :
       \E rnd \in Draws(config[l], caches[l], address) :
          TracedStep("access", l, address, type,
                     Cache_access(config[l], caches[l], address, type, rnd))

\* a set-associative LRU cache of two sets of two ways with blocks of one byte,
\* so that three blocks of the address range fall into each set
LRUConfigs ==
    { [l \in Levels |->
         IF l = 0
         THEN [MakeConfig([organization |-> "SetAssociative", size |-> 4,
                           associativity |-> 2],
                          1, "LRU", L1Latency, wb, wa, "Inclusive")
               EXCEPT !.blockSize = 1]
         ELSE MakeConfig(CHOOSE g \in L2Geometries : TRUE, 2, "LRU", L2Latency,
                         TRUE, TRUE, "Inclusive")] :
        wb \in BOOLEAN, wa \in BOOLEAN }

InitLRU == \E cfgs \in LRUConfigs : InitWith(cfgs)

\* a set-associative LRU cache under accesses only
SpecLRU == InitLRU /\ [][TracedAccess(0)]_vars

\* the recorded call i touched block B: it hit it or installed it
Touched(i, B) ==
    /\ BlockBase(config[0], history[i].address) = B
    /\ \/ history[i].result.hit
       \/ history[i].type = "Read"
       \/ config[0].writeAllocate

\* the index of the last recorded call before call n that touched block B
\* (0 if none)
LastTouch(n, B) ==
    IF \E i \in 1..(n - 1) : Touched(i, B)
    THEN CHOOSE i \in 1..(n - 1) :
            Touched(i, B) /\ \A j \in 1..(n - 1) : Touched(j, B) => j <= i
    ELSE 0

\* the blocks that were resident in the set of block B before the last call
ResidentBefore(B) ==
    { V \in (L1Blocks \ {B}) \cup last.removed[0] :
        getSetAndTag(config[0], V).set = getSetAndTag(config[0], B).set }

PolicySets == 0..(getNumSets(config[0]) - 1)
PolicyWays == 0..(getNumWays(config[0]) - 1)

PolicyStep(policy, call) ==
    /\ caches' = [caches EXCEPT ![0].policy = policy]
    /\ history' = Append(history, call)
    /\ UNCHANGED <<config, evictionTracker, accesses, last, policyObjects, policy_, memory>>

\* policy->onAccess(set, way)
PolicyOnAccess ==
    /\ Len(history) < MaxCalls
    /\ \E set \in PolicySets, way \in PolicyWays :
          PolicyStep(onAccess(config[0].policy, caches[0].policy, set, way),
                     [op |-> "onAccess", set |-> set, way |-> way])

\* the values dist(rng) can draw where RandomPolicy::getVictim reaches the draw
PolicyDraws(set) ==
    IF /\ config[0].policy = "RANDOM"
       /\ FirstUnused(caches[0].policy.usedWays[set], getNumWays(config[0]))
            = getNumWays(config[0])
    THEN PolicyWays
    ELSE {0}

PolicyVictimStep(set, v) ==
    PolicyStep(v.policy, [op |-> "getVictim", set |-> set, way |-> v.way])

\* policy->getVictim(set, numWays)
PolicyGetVictim ==
    /\ Len(history) < MaxCalls
    /\ \E set \in PolicySets : \E rnd \in PolicyDraws(set) :
          PolicyVictimStep(set, getVictim(config[0].policy, caches[0].policy, set,
                                          getNumWays(config[0]), rnd))

\* a set-associative level of two sets of three ways, for each policy
PolicyConfigs ==
    { [l \in Levels |->
         IF l = 0
         THEN MakeConfig([organization |-> "SetAssociative", size |-> 12,
                          associativity |-> 3],
                         1, p, L1Latency, TRUE, TRUE, "Inclusive")
         ELSE MakeConfig(CHOOSE g \in L2Geometries : TRUE, 2, p, L2Latency,
                         TRUE, TRUE, "Inclusive")] :
        p \in Policies }

InitPolicy == \E cfgs \in PolicyConfigs : InitWith(cfgs)

NextPolicy == PolicyOnAccess \/ PolicyGetVictim

SpecPolicy == InitPolicy /\ [][NextPolicy]_vars

\* the ways of a set that onAccess was called with before call n
Observed(n, set) ==
    { history[i].way : i \in { j \in 1..(n - 1) :
                                 history[j].op = "onAccess" /\ history[j].set = set } }

\* the index of the first onAccess(set, way)
FirstObserved(set, way) ==
    CHOOSE i \in 1..Len(history) :
       /\ history[i] = [op |-> "onAccess", set |-> set, way |-> way]
       /\ \A j \in 1..(i - 1) : history[j] # history[i]

\* the lowest way of the set that is not in ways
LowestOutside(ways) ==
    CHOOSE w \in PolicyWays \ ways : \A v \in PolicyWays \ ways : w <= v

\* C17: for FIFOPolicy, a getVictim of a set all of whose ways have been observed
\* by onAccess returns the way whose first onAccess came earliest; a getVictim
\* before that returns the lowest way not yet observed.
C17_FIFOOldestFirst ==
    config[0].policy = "FIFO" =>
    \A n \in 1..Len(history) :
       history[n].op = "getVictim" =>
          LET set == history[n].set
          IN  IF Observed(n, set) = PolicyWays
              THEN \A w \in PolicyWays :
                      FirstObserved(set, history[n].way) <= FirstObserved(set, w)
              ELSE history[n].way = LowestOutside(Observed(n, set))

\* the ways of a set were first observed in an order that does not begin with
\* way 0, and getVictim was then called
C17_Witness ==
    /\ config[0].policy = "FIFO"
    /\ Len(history) = 4
    /\ history[4].op = "getVictim"
    /\ Observed(4, history[4].set) = PolicyWays
    /\ history[1].way # 0

\* C18: for FIFOPolicy, getVictim of a set all of whose ways have been observed,
\* then onAccess of a way of that set, then getVictim of the set again: the two
\* getVictim calls return the same way.
C18_FIFOReaccessKeepsOrder ==
    config[0].policy = "FIFO" =>
    \A n \in 3..Len(history) :
       (/\ history[n].op = "getVictim"
        /\ history[n - 1].op = "onAccess"
        /\ history[n - 2].op = "getVictim"
        /\ history[n - 1].set = history[n].set
        /\ history[n - 2].set = history[n].set
        /\ Observed(n - 2, history[n].set) = PolicyWays)
       => history[n].way = history[n - 2].way

\* getVictim, onAccess, getVictim on a set whose three ways had been observed
C18_Witness ==
    /\ config[0].policy = "FIFO"
    /\ Len(history) = 6
    /\ history[6].op = "getVictim"
    /\ history[5].op = "onAccess"
    /\ history[4].op = "getVictim"
    /\ history[5].set = history[6].set
    /\ history[4].set = history[6].set
    /\ Observed(4, history[6].set) = PolicyWays

\* the ways of a set that the policy has recorded before call n: the ways onAccess
\* was called with and, for RandomPolicy, the ways getVictim marked as it
\* returned them
Recorded(n, set) ==
    { history[i].way : i \in { j \in 1..(n - 1) :
                                 /\ history[j].set = set
                                 /\ \/ history[j].op = "onAccess"
                                    \/ config[0].policy = "RANDOM" } }

C20_VictimRange ==
    \A n \in 1..Len(history) :
       history[n].op = "getVictim" =>
          history[n].way \in 0..(getNumWays(config[0]) - 1)

\* getVictim called after every way of the set had been recorded returned the
\* highest way
C20_Witness ==
    \E n \in 1..Len(history) :
       /\ history[n].op = "getVictim"
       /\ Recorded(n, history[n].set) = PolicyWays
       /\ history[n].way = getNumWays(config[0]) - 1

(***************************************************************************)
(* Copies.  caches[0] is a Cache and caches[1] the Cache copy-constructed   *)
(* from it; policy_[l] names the policy object cache l owns and             *)
(* policyObjects holds the objects.  A cache as its methods see it is its   *)
(* members together with the object behind policy_.                        *)
(***************************************************************************)
CacheView(cs, objects, ptr, l) == [cs[l] EXCEPT !.policy = objects[ptr[l]]]

View(l) == CacheView(caches, policyObjects, policy_, l)

\* the copy has been constructed
Copied == history # << >>

\* a clone that hands out the object it was called on
ReplacementPolicy_cloneShared(this, fresh) == this

\* clone(): std::make_unique<Policy>(*this); fresh is the new object
ReplacementPolicy_clone(this, fresh) == fresh

\* Cache::Cache(const Cache& other): the members of the copy
Cache_copy(other) ==
    [entries |-> other.entries, policy |-> other.policy,
     hits |-> other.hits, misses |-> other.misses]

\* Cache copy(original)
CopyConstruct ==
    /\ ~Copied
    /\ caches' = [caches EXCEPT ![1] = Cache_copy(View(0))]
    /\ policyObjects' = [policyObjects EXCEPT ![1] = policyObjects[policy_[0]]]
    /\ policy_' = [policy_ EXCEPT ![1] = ReplacementPolicy_clone(policy_[0], 1)]
    /\ history' = <<[op |-> "copy"]>>
    /\ last' = [NoCall EXCEPT !.op = "copy", !.level = 1]
    /\ UNCHANGED <<config, evictionTracker, accesses, memory>>

\* a call on cache l that turns it into out.cache
CloneStep(op, l, address, type, c, out) ==
    /\ caches' = [caches EXCEPT ![l] = out.cache]
    /\ policyObjects' = [policyObjects EXCEPT ![policy_[l]] = out.cache.policy]
    /\ accesses' = accesses + 1
    /\ last' = CacheCall(op, l, address, type, EmptyEntry, c, out.cache,
                         out.result, NoEntry)
    /\ UNCHANGED <<config, evictionTracker, history, policy_, memory>>

CloneAccessOf(l, c) ==
    \E address \in Addresses, type \in AccessTypes :
    \E rnd \in Draws(config[l], c, address) :
       CloneStep("access", l, address, type, c,
                 Cache_access(config[l], c, address, type, rnd))

\* original.access(address, type) (l = 0), copy.access(address, type) (l = 1)
CloneAccess(l) ==
    /\ accesses < MaxAccesses
    /\ l = 1 => Copied
    /\ CloneAccessOf(l, View(l))

\* original.reset() (l = 0), copy.reset() (l = 1)
CloneReset(l) ==
    /\ accesses < MaxAccesses
    /\ l = 1 => Copied
    /\ CloneStep("reset", l, 0, "Read", View(l),
                 [cache |-> Cache_reset(config[l], View(l)), result |-> NewResult(0)])

\* the copy has the configuration of the original
CloneConfigs == { [l \in Levels |-> cfgs[0]] : cfgs \in CacheConfigs }

InitClone == \E cfgs \in CloneConfigs : InitWith(cfgs)

NextClone ==
    \/ CopyConstruct
    \/ CloneAccess(0)
    \/ CloneAccess(1)
    \/ CloneReset(0)
    \/ CloneReset(1)

\* a cache and its copy
SpecClone == InitClone /\ [][NextClone]_vars

C23_MissPenalty ==
    last.op = "access" =>
       /\ (~last.result.hit /\ last.type = "Read")
             => last.result.latency > config[last.level].accessLatency
       /\ last.result.hit
             => last.result.latency = config[last.level].accessLatency

\* the first access of a cache, a read: a miss that allocates
C23_Witness ==
    /\ last.op = "access"
    /\ accesses = 1
    /\ last.type = "Read"
    /\ ~last.result.hit
    /\ BlockBase(config[0], last.address) \in L1Blocks

\* C24: the latency CacheHierarchy::access returns is the sum of the access
\* latencies of the levels 0..k, k the first level that hits or else the last
\* level: L1's latency on an L1 hit, L1's plus L2's otherwise.
C24_HierarchyLatency ==
    last.op = "hierarchy" =>
       last.result.latency =
          IF last.l1hit THEN config[0].accessLatency
          ELSE config[0].accessLatency + config[1].accessLatency

\* an access that missed L1 and hit L2
C24_Witness ==
    /\ last.op = "hierarchy"
    /\ ~last.l1hit
    /\ last.result.hit
    /\ last.result.latency = config[0].accessLatency + config[1].accessLatency

(***************************************************************************)
(* A trace run: PerformanceAnalyzer::runTests hands each access of the      *)
(* trace to the hierarchy and, when no cache hit, to the main memory.       *)
(***************************************************************************)
\* MainMemory::access: the counters it leaves
MainMemory_access(mem, type) ==
    IF type = "Read" THEN [mem EXCEPT !.reads = @ + 1]
    ELSE [mem EXCEPT !.writes = @ + 1]

\* a loop body that goes to the main memory on every access
runTests_memoryAlways(mem, hitInCache, type) == MainMemory_access(mem, type)

\* the loop body of runTests after hierarchy.access: the main memory it leaves
runTests_memory(mem, hitInCache, type) ==
    IF ~hitInCache THEN MainMemory_access(mem, type) ELSE mem

\* one iteration of the loop of runTests
TraceAccess ==
    /\ accesses < MaxAccesses
    /\ \E address \in Addresses, type \in AccessTypes :
       \E r1 \in Draws(config[0], caches[0], address) :
          HierarchySearch(address, type,
                          accessL1(config, caches, evictionTracker, address, type, r1))
    /\ memory' = runTests_memory(memory, last'.result.hit, last'.type)

\* a trace run on a hierarchy of every configuration
SpecTrace == Init /\ [][TraceAccess]_vars

\* C25: an access of the trace reaches the main memory exactly when no cache
\* level hit: it adds one to memory.reads (a Read) or to memory.writes (a Write)
\* when the hierarchy reports no hit and leaves both alone when it reports a hit;
\* and the hierarchy reports a hit exactly when the block was in L1, or in L2,
\* which is accessed when L1 misses.
C25_MemoryOnFullMiss ==
    [][accesses' = accesses + 1 =>
         /\ last'.result.hit
               <=> BlockBase(config[0], last'.address) \in (L1Blocks \cup L2Blocks)
         /\ memory'.reads = memory.reads +
               (IF ~last'.result.hit /\ last'.type = "Read" THEN 1 ELSE 0)
         /\ memory'.writes = memory.writes +
               (IF ~last'.result.hit /\ last'.type = "Write" THEN 1 ELSE 0)]_vars

\* a run of three accesses: a read and a write went to the main memory, and the
\* last access hit in L2 only and did not
C25_Witness ==
    /\ accesses = 3
    /\ memory = [reads |-> 1, writes |-> 1]
    /\ last.result.hit
    /\ ~last.l1hit

(***************************************************************************)
(* MemoryAddress on the full width.  A uint64_t is the set of the positions *)
(* of its one bits, so that the fields of addresses up to 2^64 - 1 and of   *)
(* every split of the 64 bits can be computed.                             *)
(***************************************************************************)
BitPositions == 0..(ADDRESS_WIDTH - 1)

\* x >> n, n < 64
Shr64(x, n) == { i - n : i \in { j \in x : j >= n } }

\* x << n on 64 bits: the bits pushed beyond bit 63 are lost
Shl64(x, n) == { i + n : i \in { j \in x : j + n < ADDRESS_WIDTH } }

\* x & ((1ULL << n) - 1), 1 <= n < 64
Mask64(x, n) == { i \in x : i < n }

\* getBlockOffset that keeps one bit too few
MemoryAddress_getBlockOffsetShort(address_, blockOffsetBits) ==
    IF blockOffsetBits = 0 THEN {}
    ELSE IF blockOffsetBits >= ADDRESS_WIDTH THEN address_
    ELSE Mask64(address_, blockOffsetBits - 1)

MemoryAddress_getTag(address_, blockOffsetBits, indexBits) ==
    LET totalLowerBits == blockOffsetBits + indexBits
    IN  IF totalLowerBits >= ADDRESS_WIDTH THEN {}
        ELSE Shr64(address_, totalLowerBits)

MemoryAddress_getIndex(address_, blockOffsetBits, indexBits) ==
    IF indexBits = 0 THEN {}
    ELSE IF blockOffsetBits >= ADDRESS_WIDTH THEN {}
    ELSE IF indexBits >= ADDRESS_WIDTH THEN Shr64(address_, blockOffsetBits)
    ELSE Mask64(Shr64(address_, blockOffsetBits), indexBits)

MemoryAddress_getBlockOffset(address_, blockOffsetBits) ==
    IF blockOffsetBits = 0 THEN {}
    ELSE IF blockOffsetBits >= ADDRESS_WIDTH THEN address_
    ELSE Mask64(address_, blockOffsetBits)

\* addresses over the whole width: 0, 2^64 - 1, 0x5555..., 0xAAAA..., every
\* third bit, the lowest and the highest bit alone, and the two middle bits
WideAddresses ==
    { {}, BitPositions,
      { i \in BitPositions : i % 2 = 0 }, { i \in BitPositions : i % 2 = 1 },
      { i \in BitPositions : i % 3 = 0 },
      {0}, {ADDRESS_WIDTH - 1}, {ADDRESS_WIDTH \div 2 - 1, ADDRESS_WIDTH \div 2} }

\* the fields of an address under a split of blockOffsetBits and indexBits
DecodeCall(address_, blockOffsetBits, indexBits) ==
    [op |-> "decode", address |-> address_,
     blockOffsetBits |-> blockOffsetBits, indexBits |-> indexBits,
     offset |-> MemoryAddress_getBlockOffset(address_, blockOffsetBits),
     index |-> MemoryAddress_getIndex(address_, blockOffsetBits, indexBits),
     tag |-> MemoryAddress_getTag(address_, blockOffsetBits, indexBits)]

PureStep(call) ==
    /\ history' = <<call>>
    /\ UNCHANGED <<config, caches, evictionTracker, accesses, last,
                   policyObjects, policy_, memory>>

\* getBlockOffset, getIndex and getTag of one address
Decode ==
    /\ history = << >>
    /\ \E address_ \in WideAddresses :
       \E blockOffsetBits \in 0..ADDRESS_WIDTH :
       \E indexBits \in 0..(ADDRESS_WIDTH - blockOffsetBits) :
          PureStep(DecodeCall(address_, blockOffsetBits, indexBits))

\* cache geometries: every organization with sizes 4, 8, 16, blocks of 1, 2, 4
\* bytes and 1, 2, 4 ways, where the blocks and the ways fit the size
GeometrySamples ==
    { cfg \in { [MakeConfig([organization |-> o, size |-> sz, associativity |-> ways],
                            1, "LRU", L1Latency, TRUE, TRUE, "Inclusive")
                 EXCEPT !.blockSize = bs] :
                o \in Organizations, sz \in {4, 8, 16}, bs \in {1, 2, 4},
                ways \in {1, 2, 4} } :
        cfg.blockSize * cfg.associativity <= cfg.size }

\* reconstructAddress(set, tag) and getSetAndTag of the address it returns
ReconstructCall(cfg, set, tag, address) ==
    [op |-> "reconstruct", config |-> cfg, set |-> set, tag |-> tag,
     address |-> address, decoded |-> getSetAndTag(cfg, address)]

Reconstruct ==
    /\ history = << >>
    /\ \E cfg \in GeometrySamples :
       \E set \in 0..(getNumSets(cfg) - 1), tag \in 0..MaxTag :
          PureStep(ReconstructCall(cfg, set, tag, reconstructAddress(cfg, set, tag)))

InitAddress == InitWith(CHOOSE cfgs \in CacheConfigs : TRUE)

NextAddress == Decode \/ Reconstruct

\* the address arithmetic on its own
SpecAddress == InitAddress /\ [][NextAddress]_vars

\* C26: for every address a and every B, S with B + S <= 64, S = 0 and
\* B + S = 64 included, getBlockOffset(B) | (getIndex(B, S) << B) |
\* (getTag(B, S) << (B + S)) is a; with S = 0 the index is 0 and the tag is
\* a >> B.
C26_AddressRoundTrip ==
    \A i \in 1..Len(history) :
       history[i].op = "decode" =>
          LET r == history[i]
          IN  /\ r.offset \cup Shl64(r.index, r.blockOffsetBits)
                          \cup Shl64(r.tag, r.blockOffsetBits + r.indexBits)
                    = r.address
              /\ r.indexBits = 0
                    => r.index = {} /\ r.tag = Shr64(r.address, r.blockOffsetBits)

\* 2^64 - 1 split into offset and index bits that cover the 64 bits: no tag
C26_Witness ==
    /\ history # << >>
    /\ history[1].op = "decode"
    /\ history[1].address = BitPositions
    /\ history[1].blockOffsetBits > 0
    /\ history[1].indexBits > 0
    /\ history[1].blockOffsetBits + history[1].indexBits = ADDRESS_WIDTH
    /\ history[1].tag = {}
    /\ history[1].index # {}

\* C27: for every cache geometry, every set s of the cache and every tag t, the
\* address reconstructAddress(s, t) returns has set s and tag t under
\* getSetAndTag.
C27_ReconstructionLaw ==
    \A i \in 1..Len(history) :
       history[i].op = "reconstruct" =>
          history[i].decoded = [set |-> history[i].set, tag |-> history[i].tag]

\* a set other than 0 and the largest tag in a cache with offset bits and
\* more than one index bit
C27_Witness ==
    /\ history # << >>
    /\ history[1].op = "reconstruct"
    /\ history[1].set > 1
    /\ history[1].tag = MaxTag
    /\ getBlockOffsetBits(history[1].config) > 0

(***************************************************************************)
(* Construction of a Cache from any configuration.                         *)
(***************************************************************************)
\* getNumSets or getNumWays divides by zero
DividesByZero(cfg) ==
    \/ cfg.blockSize = 0
    \/ cfg.organization = "SetAssociative" /\ cfg.blockSize * cfg.associativity = 0

\* how Cache::Cache(const CacheConfig&) can end: it has no check and throws
\* nothing, so it returns a cache; a division by zero in getNumSets or
\* getNumWays is undefined, and the program stops there or goes on
Cache_Cache(cfg) ==
    IF DividesByZero(cfg) THEN {"crash", "constructed"} ELSE {"constructed"}

\* configurations, sound and unsound
AnyConfigs ==
    { [MakeConfig([organization |-> o, size |-> sz, associativity |-> ways],
                  1, "LRU", L1Latency, TRUE, TRUE, "Inclusive")
       EXCEPT !.blockSize = bs] :
      o \in Organizations, sz \in {4, 6, 8, 12, 16}, bs \in {0, 1, 2, 3, 4},
      ways \in {0, 1, 2, 3, 4, 8} }

ConstructCall(cfg, outcome) ==
    [op |-> "construct", config |-> cfg, outcome |-> outcome,
     numSets |-> IF DividesByZero(cfg) THEN 0 ELSE getNumSets(cfg)]

\* Cache cache(config)
ConstructCache ==
    /\ history = << >>
    /\ \E cfg \in AnyConfigs : \E outcome \in Cache_Cache(cfg) :
          PureStep(ConstructCall(cfg, outcome))

SpecConstruct == InitAddress /\ [][ConstructCache]_vars

IsPowerOfTwo(n) == n > 0 /\ 2 ^ Log2(n) = n

\* the configuration errors: a size or block size that is not a power of two, a
\* block size of zero, more ways than blocks
ConfigurationError(cfg) ==
    \/ ~IsPowerOfTwo(cfg.size)
    \/ ~IsPowerOfTwo(cfg.blockSize)
    \/ cfg.organization = "SetAssociative"
         /\ cfg.associativity * cfg.blockSize > cfg.size

\* C28: constructing a Cache from a configuration with a size or block size that
\* is not a power of two, a block size of zero, or more ways than size/blockSize
\* fails with a configuration error.
C28_ConfigErrorsRejected ==
    \A i \in 1..Len(history) :
       (history[i].op = "construct" /\ ConfigurationError(history[i].config))
          => history[i].outcome = "ConfigError"

\* a cache was constructed with more ways than blocks: it has no set
C28_Witness ==
    /\ history # << >>
    /\ history[1].op = "construct"
    /\ history[1].outcome = "constructed"
    /\ history[1].config.organization = "SetAssociative"
    /\ IsPowerOfTwo(history[1].config.size)
    /\ IsPowerOfTwo(history[1].config.blockSize)
    /\ history[1].config.associativity * history[1].config.blockSize
          > history[1].config.size
    /\ history[1].numSets = 0

(***************************************************************************)
(* PerformanceAnalyzer::collectMetrics: the AMAT metrics.  The doubles of   *)
(* the code are fractions [num, den], den > 0, computed exactly.            *)
(***************************************************************************)
Rat(n, d) == [num |-> n, den |-> d]
RatAdd(a, b) == Rat(a.num * b.den + b.num * a.den, a.den * b.den)
RatSub(a, b) == Rat(a.num * b.den - b.num * a.den, a.den * b.den)
RatMul(a, b) == Rat(a.num * b.num, a.den * b.den)
RatEq(a, b) == a.num * b.den = b.num * a.den
RatLeq(a, b) == a.num * b.den <= b.num * a.den

\* latency of the main memory of the experiments
MemoryLatency == 100

\* a hit rate taken over the misses
getHitRateOverMisses(c) ==
    IF c.misses > 0 THEN Rat(c.hits, c.misses) ELSE Rat(0, 1)

\* Cache::getHitRate
getHitRate(c) ==
    IF c.hits + c.misses > 0 THEN Rat(c.hits, c.hits + c.misses) ELSE Rat(0, 1)

\* a contribution that already counts the miss rate of its own level
levelContributionOwnMiss(missPathProbability, missRate, accessLatency) ==
    RatMul(RatMul(missPathProbability, missRate), Rat(accessLatency, 1))

\* levelContribution = missPathProbability * accessLatency (missRate is the miss
\* rate of the level, which the contribution does not use)
levelContribution(missPathProbability, missRate, accessLatency) ==
    RatMul(missPathProbability, Rat(accessLatency, 1))

RECURSIVE collectLevels(_, _, _, _, _, _, _)
\* the loop over the levels from L2 on, then the contribution of the memory
collectLevels(i, cfgs, cs, memoryLatency, totalAMAT, missPathProbability, contributions) ==
    IF i \in Levels
    THEN collectLevels(i + 1, cfgs, cs, memoryLatency,
             RatAdd(totalAMAT,
                    levelContribution(missPathProbability,
                                      RatSub(Rat(1, 1), getHitRate(cs[i])),
                                      cfgs[i].accessLatency)),
             RatMul(missPathProbability, RatSub(Rat(1, 1), getHitRate(cs[i]))),
             Append(contributions,
                    levelContribution(missPathProbability,
                                      RatSub(Rat(1, 1), getHitRate(cs[i])),
                                      cfgs[i].accessLatency)))
    ELSE [contributions |-> contributions,
          memory |-> RatMul(missPathProbability, Rat(memoryLatency, 1)),
          total |-> RatAdd(totalAMAT, RatMul(missPathProbability, Rat(memoryLatency, 1)))]

\* the metrics "L<i> AMAT Contribution", "Memory AMAT Contribution" and "Total
\* System AMAT"
collectMetrics(cfgs, cs, memoryLatency) ==
    collectLevels(1, cfgs, cs, memoryLatency,
                  Rat(cfgs[0].accessLatency, 1),
                  RatSub(Rat(1, 1), getHitRate(cs[0])),
                  <<Rat(cfgs[0].accessLatency, 1)>>)

\* caches with the given hit and miss counts
Counted_caches(hits, misses) ==
    [l \in Levels |-> [caches[l] EXCEPT !.hits = hits[l], !.misses = misses[l]]]

MetricsCall(hits, misses) ==
    [op |-> "collectMetrics", hits |-> hits, misses |-> misses,
     metrics |-> collectMetrics(config, Counted_caches(hits, misses), MemoryLatency)]

\* collectMetrics(hierarchy, memory, executionTime) on a hierarchy whose levels
\* have counted the given hits and misses
CollectMetrics ==
    /\ history = << >>
    /\ \E hits \in [Levels -> 0..MaxCount], misses \in [Levels -> 0..MaxCount] :
          PureStep(MetricsCall(hits, misses))

\* hierarchies whose levels have latency 1 or 10 each
MetricsConfigs ==
    { [l \in Levels |->
         [(CHOOSE cfgs \in HierarchyConfigs : TRUE)[l] EXCEPT !.accessLatency = lat[l]]] :
      lat \in [Levels -> {L1Latency, L2Latency}] }

InitMetrics == \E cfgs \in MetricsConfigs : InitWith(cfgs)

SpecMetrics == InitMetrics /\ [][CollectMetrics]_vars

\* the miss rate of a level with the given counts: 1 - hits/(hits + misses), with
\* a hit rate of 0 when the level saw no access
MissRateOf(hits, misses, l) ==
    IF hits[l] + misses[l] > 0 THEN Rat(misses[l], hits[l] + misses[l]) ELSE Rat(1, 1)

RECURSIVE MissProduct(_, _, _)
\* the product of the miss rates of the levels 0..i-1
MissProduct(hits, misses, i) ==
    IF i = 0 THEN Rat(1, 1)
    ELSE RatMul(MissProduct(hits, misses, i - 1), MissRateOf(hits, misses, i - 1))

RECURSIVE LevelSum(_, _, _)
\* the sum over the levels 1..i of (product of the miss rates of 0..l-1) * latency
LevelSum(hits, misses, i) ==
    IF i = 0 THEN Rat(0, 1)
    ELSE RatAdd(LevelSum(hits, misses, i - 1),
                RatMul(MissProduct(hits, misses, i), Rat(config[i].accessLatency, 1)))

RECURSIVE RatSum(_)
RatSum(seq) == IF seq = << >> THEN Rat(0, 1) ELSE RatAdd(seq[1], RatSum(Tail(seq)))

LastLevel == Cardinality(Levels) - 1

\* C29: the Total System AMAT is at least L1's access latency and at most L1's
\* access latency plus the latency of the memory, whatever the hit and miss
\* counts of the levels.
C29_AMATBounds ==
    \A i \in 1..Len(history) :
       history[i].op = "collectMetrics" =>
          /\ RatLeq(Rat(config[0].accessLatency, 1), history[i].metrics.total)
          /\ RatLeq(history[i].metrics.total,
                    Rat(config[0].accessLatency + MemoryLatency, 1))

\* C29 as amended: the Total System AMAT is at least L1's access latency and at
\* most the sum of the access latencies of all levels plus the latency of the
\* memory.
C29_AMATBoundsAllLevels ==
    \A i \in 1..Len(history) :
       history[i].op = "collectMetrics" =>
          /\ RatLeq(Rat(config[0].accessLatency, 1), history[i].metrics.total)
          /\ RatLeq(history[i].metrics.total,
                    Rat(config[0].accessLatency + config[1].accessLatency
                          + MemoryLatency, 1))

\* every access missed in both levels: the total is all the latencies together
C29_Witness ==
    /\ history # << >>
    /\ history[1].op = "collectMetrics"
    /\ history[1].hits = [l \in Levels |-> 0]
    /\ history[1].misses = [l \in Levels |-> MaxCount]
    /\ RatEq(history[1].metrics.total,
             Rat(config[0].accessLatency + config[1].accessLatency + MemoryLatency, 1))

\* C30: the Total System AMAT is L1's latency, plus for each level i >= 1 the
\* product of the miss rates of the levels before it times its latency, plus the
\* product of all miss rates times the memory latency, a level's hit rate being
\* hits/(hits + misses) and 0 for a level without accesses; and the AMAT
\* contributions of the levels and of the memory sum to the total.
C30_AMATFormula ==
    \A i \in 1..Len(history) :
       history[i].op = "collectMetrics" =>
          LET r == history[i]
          IN  /\ RatEq(r.metrics.total,
                       RatAdd(RatAdd(Rat(config[0].accessLatency, 1),
                                     LevelSum(r.hits, r.misses, LastLevel)),
                              RatMul(MissProduct(r.hits, r.misses, LastLevel + 1),
                                     Rat(MemoryLatency, 1))))
              /\ RatEq(r.metrics.total,
                       RatAdd(RatSum(r.metrics.contributions), r.metrics.memory))

\* L1 with 1 hit and 3 misses, L2 with 2 hits and 1 miss, latencies 1, 10 and
\* 100: 1 + 3/4 * 10 + 3/4 * 1/3 * 100 = 67/2
C30_Witness ==
    /\ history # << >>
    /\ history[1].op = "collectMetrics"
    /\ config[0].accessLatency = L1Latency
    /\ config[1].accessLatency = L2Latency
    /\ history[1].hits = (0 :> 1 @@ 1 :> 2)
    /\ history[1].misses = (0 :> 3 @@ 1 :> 1)
    /\ RatEq(history[1].metrics.total, Rat(67, 2))

(***************************************************************************)
(* Residency and hits; forceEntry; what an access of the hierarchy may     *)
(* displace.                                                               *)
(***************************************************************************)
\* C31: Cache::access(X) returns a hit exactly when the block of X is valid in
\* the cache before the call; and after a hit, a read miss or a write miss
\* with writeAllocate the block is resident, so that an access to any address of
\* the block that follows immediately hits.
C31_HitIffResident ==
    [][(accesses' = accesses + 1 /\ last'.op = "access") =>
          /\ last'.result.hit <=> (BlockBase(config[0], last'.address) \in L1Blocks)
          /\ (last'.result.hit \/ last'.type = "Read" \/ config[0].writeAllocate) =>
                /\ BlockBase(config[0], last'.address) \in L1Blocks'
                /\ \A b \in Addresses, type \in AccessTypes :
                      BlockBase(config[0], b) = BlockBase(config[0], last'.address) =>
                         \A rnd \in Draws(config[0], caches'[0], b) :
                            Cache_access(config[0], caches'[0], b, type, rnd).result.hit]_vars

\* a write miss to the second address of a block, allocated over another block
C31_Witness ==
    /\ last.op = "access"
    /\ ~last.result.hit
    /\ last.type = "Write"
    /\ config[0].writeAllocate
    /\ last.address # BlockBase(config[0], last.address)
    /\ last.removed[0] # {}
    /\ BlockBase(config[0], last.address) \in L1Blocks

\* C32: whenever forceEntry displaces a valid entry, clean or dirty, its result
\* carries the address of the displaced block and the displaced entry, and
\* writeBack is true only if that entry was dirty in a write-back level.
C32_ForceEntryReportsDisplacement ==
    (last.op = "forceEntry" /\ last.removed[last.level] # {}) =>
       /\ last.result.evictedAddress.has
       /\ last.result.evictedAddress.val \in last.removed[last.level]
       /\ last.result.evictedEntry.has
       /\ last.result.evictedEntry.val.valid
       /\ last.result.writeBack =>
             (last.result.evictedEntry.val.dirty /\ config[last.level].writeBack)

\* forceEntry displaced a clean block
C32_Witness ==
    /\ last.op = "forceEntry"
    /\ last.removed[last.level] # {}
    /\ last.result.evictedEntry.has
    /\ ~last.result.evictedEntry.val.dirty

\* C33: after forceEntry(X, e, kind) the block of X is resident, its entry valid
\* with the tag of X and dirty = e.dirty \/ (kind = Write /\ writeBack); and if
\* the block was resident before the call its way is overwritten in place: no
\* other entry changes and the result reports nothing evicted.
C33_ForceEntryInstall ==
    [][(accesses' = accesses + 1 /\ last'.op = "forceEntry") =>
          LET cfg == config[0]
              X == last'.address
              set == getIndex(X, getBlockOffsetBits(cfg), getIndexBits(cfg))
              installed ==
                  [valid |-> TRUE,
                   tag |-> getTag(X, getBlockOffsetBits(cfg), getIndexBits(cfg)),
                   dirty |-> last'.entry.dirty \/ (last'.type = "Write" /\ cfg.writeBack)]
              holding(c) == {w \in DOMAIN c.entries[set] :
                                /\ c.entries[set][w].valid
                                /\ c.entries[set][w].tag = installed.tag}
          IN  /\ BlockBase(cfg, X) \in L1Blocks'
              /\ holding(caches'[0]) # {}
              /\ \A w \in holding(caches'[0]) : caches'[0].entries[set][w] = installed
              /\ BlockBase(cfg, X) \in L1Blocks =>
                    /\ \E w \in holding(caches[0]) :
                          caches'[0].entries =
                             [caches[0].entries EXCEPT ![set][w] = installed]
                    /\ last'.removed[0] = {}
                    /\ ~last'.result.evictedAddress.has
                    /\ ~last'.result.evictedEntry.has
                    /\ ~last'.result.writeBack]_vars

\* two misses filled the two ways of a fully associative cache, and the third
\* call, forceEntry of a dirty entry, overwrote the resident copy of a block
\* with a tag other than the entry's
C33_Witness ==
    /\ last.op = "forceEntry"
    /\ accesses = 3
    /\ config[0].organization = "FullyAssociative"
    /\ config[0].writeAllocate
    /\ caches[0].misses = 2
    /\ Cardinality(L1Blocks) = 2
    /\ last.removed[0] = {}
    /\ ~last.result.evictedEntry.has
    /\ last.entry.dirty
    /\ last.type = "Read"
    /\ getTag(last.address, getBlockOffsetBits(config[0]), getIndexBits(config[0])) # 0
    /\ EntryOf(config[0], caches[0], last.address).dirty

\* C34: with an exclusive L2, a hierarchy access of X that misses in every level
\* does not leave X in L2 and removes no valid block from L2, except the one
\* block that the victim displaced from L1 in this access replaces when its set
\* of L2 is full.
C34_ExclusiveMissKeepsL2 ==
    [][(/\ accesses' = accesses + 1
        /\ last'.op = "hierarchy"
        /\ config[1].inclusionPolicy = "Exclusive"
        /\ ~last'.result.hit)
       => /\ BlockBase(config[1], last'.address) \notin L2Blocks'
          /\ last'.removed[0] = {} => last'.removed[1] = {}
          /\ Cardinality(last'.removed[1]) <= 1
          /\ last'.removed[1] # {} =>
                \A V \in last'.removed[0] :
                   LET set == getIndex(V, getBlockOffsetBits(config[1]),
                                       getIndexBits(config[1]))
                   IN  \A w \in DOMAIN caches[1].entries[set] :
                          caches[1].entries[set][w].valid]_vars

\* a miss in both levels that displaced a block from L1 while L2 held a block
C34_Witness ==
    /\ config[1].inclusionPolicy = "Exclusive"
    /\ last.op = "hierarchy"
    /\ ~last.result.hit
    /\ last.removed[0] # {}
    /\ last.removed[0] \subseteq L2Blocks
    /\ Cardinality(L2Blocks) = 2

\* C35: under every inclusion policy, a hierarchy access that hits in L1 changes
\* no entry, no counter and no replacement state of the lower level.
C35_L1HitEndsPropagation ==
    [][(accesses' = accesses + 1 /\ last'.op = "hierarchy" /\ last'.l1hit)
       => caches'[1] = caches[1]]_vars

\* a hit in L1 while the lower level holds a block and has counted accesses
C35_Witness ==
    /\ last.op = "hierarchy"
    /\ last.l1hit
    /\ last.result.hit
    /\ L2Blocks # {}
    /\ caches[1].hits + caches[1].misses > 0
    /\ last.counted[1] = 0

\* C36: with an exclusive L2, the eviction tracker is empty at the start of
\* every hierarchy access: the victim it holds when the access returns was
\* displaced from L1 by this access, and a block other than the accessed one
\* that an access adds to L2 is the one block that this access displaced from
\* L1; no access installs a victim recorded by an earlier one.
C36_TrackerLifetime ==
    [][(/\ accesses' = accesses + 1
        /\ last'.op = "hierarchy"
        /\ config[1].inclusionPolicy = "Exclusive")
       => LET installed == (L2Blocks' \ L2Blocks) \ {BlockBase(config[1], last'.address)}
          IN  /\ evictionTracker'.hasEviction =>
                    evictionTracker'.address \in last'.removed[0]
              /\ installed \subseteq last'.removed[0]
              /\ Cardinality(installed) <= 1
              /\ last'.l1hit => ~evictionTracker'.hasEviction]_vars

\* an access that displaced nothing from L1, after an access whose victim went
\* to L2 and is still there
C36_Witness ==
    /\ config[1].inclusionPolicy = "Exclusive"
    /\ last.op = "hierarchy"
    /\ ~last.l1hit
    /\ last.removed[0] = {}
    /\ ~evictionTracker.hasEviction
    /\ BlockBase(config[0], evictionTracker.address) \in L2Blocks
    /\ evictionTracker.entry.valid

\* C37: a hierarchy access displaces at most one block from L1: the allocation
\* of a miss and the promotion of an exclusive hit never both displace one, so
\* that the victim in the tracker, if any, is the one block that left L1.
C37_OneDisplacement ==
    last.op = "hierarchy" =>
       /\ Cardinality(last.removed[0]) <= 1
       /\ evictionTracker.hasEviction => last.removed[0] = {evictionTracker.address}

\* a read that missed L1, displaced a block by its allocation and was promoted
\* from the exclusive L2 over the copy just allocated
C37_Witness ==
    /\ config[1].inclusionPolicy = "Exclusive"
    /\ last.op = "hierarchy"
    /\ last.type = "Read"
    /\ ~last.l1hit
    /\ last.result.hit
    /\ Cardinality(last.removed[0]) = 1
    /\ evictionTracker.hasEviction
    /\ last.removed[0] = {evictionTracker.address}

(***************************************************************************)
(* A cache of several ways under accesses, forceEntry and invalidateEntry, *)
(* in runs long enough to fill a set, empty one of its ways and allocate    *)
(* again.                                                                  *)
(***************************************************************************)
\* fully associative caches of two ways, write-back and write-allocate, of each
\* replacement policy
RefillConfigs ==
    {cfgs \in CacheConfigs : /\ cfgs[0].organization = "FullyAssociative"
                             /\ cfgs[0].writeBack
                             /\ cfgs[0].writeAllocate}

InitRefill == \E cfgs \in RefillConfigs : InitWith(cfgs)

\* cache.access(address, type)
RefillAccess ==
    /\ accesses < MaxTrace
    /\ \E address \in Addresses, type \in AccessTypes :
       \E rnd \in Draws(config[0], caches[0], address) :
          CacheStep("access", 0, address, type, EmptyEntry,
                    Cache_access(config[0], caches[0], address, type, rnd), NoEntry)

\* cache.forceEntry(address, entry, type)
RefillForceEntry ==
    /\ accesses < MaxTrace
    /\ \E address \in Addresses, type \in AccessTypes, entry \in ForcedEntries :
       \E rnd \in Draws(config[0], caches[0], address) :
          CacheStep("forceEntry", 0, address, type, entry,
                    forceEntry(config[0], caches[0], address, entry, type, rnd), NoEntry)

\* cache.invalidateEntry(address)
RefillInvalidateEntry ==
    /\ accesses < MaxTrace
    /\ \E address \in Addresses :
          CacheStep("invalidateEntry", 0, address, "Read", EmptyEntry,
                    [cache |-> invalidateEntry(config[0], caches[0], address),
                     result |-> NewResult(0)],
                    NoEntry)

NextRefill ==
    \/ RefillAccess
    \/ RefillForceEntry
    \/ RefillInvalidateEntry

SpecRefill == InitRefill /\ [][NextRefill]_vars

\* C38: under LRU, FIFO and Random, an allocation (a miss of access, or
\* forceEntry of a block that is not resident) displaces a valid entry only
\* when its set has no invalid way, also after invalidateEntry has emptied a way
\* that the policy had recorded: after a call that displaced a block, the set
\* of the address has no invalid way (the call filled one way and emptied none).
C38_InvalidWaysFirst ==
    (last.op \in {"access", "forceEntry"} /\ last.removed[0] # {}) =>
       LET set == getIndex(last.address, getBlockOffsetBits(config[0]),
                           getIndexBits(config[0]))
       IN  \A w \in DOMAIN caches[0].entries[set] : caches[0].entries[set][w].valid

\* an allocation into the way that invalidateEntry had emptied: two blocks
\* were installed, one was invalidated, and the miss that followed displaced
\* nothing
C38_Witness ==
    /\ accesses = 4
    /\ last.op = "access"
    /\ ~last.result.hit
    /\ caches[0].misses = 3
    /\ last.removed[0] = {}
    /\ Cardinality(L1Blocks) = 2

\* C39: with an exclusive L2 and both levels write-back, a block that is dirty
\* before a hierarchy access and resident in some level after it is dirty
\* there: displaced from L1 into L2, or promoted from L2 into L1, also over
\* the clean copy that the same access allocated in L1.
C39_DirtySurvivesTransfers ==
    [][(/\ accesses' = accesses + 1
        /\ last'.op = "hierarchy"
        /\ config[1].inclusionPolicy = "Exclusive"
        /\ config[0].writeBack
        /\ config[1].writeBack)
       => LET \* the cache of level l holds the block B in a valid and dirty entry
              dirtyIn(cs, l, B) ==
                  /\ B \in Resident(config[l], cs[l])
                  /\ EntryOf(config[l], cs[l], B).dirty
          IN  \A B \in L1Blocks \cup L2Blocks :
                 (/\ dirtyIn(caches, 0, B) \/ dirtyIn(caches, 1, B)
                  /\ B \in (L1Blocks' \cup L2Blocks'))
                 => dirtyIn(caches', 0, B) \/ dirtyIn(caches', 1, B)]_vars

\* a read that missed L1, where it allocated a clean copy, hit the exclusive
\* write-back L2 and left the block dirty in L1
C39_Witness ==
    /\ config[1].inclusionPolicy = "Exclusive"
    /\ config[0].writeBack
    /\ config[1].writeBack
    /\ last.op = "hierarchy"
    /\ last.type = "Read"
    /\ ~last.l1hit
    /\ last.result.hit
    /\ BlockBase(config[0], last.address) \in L1Blocks
    /\ EntryOf(config[0], caches[0], last.address).dirty
    /\ BlockBase(config[1], last.address) \notin L2Blocks

=============================================================================
